---- MODULE Spec2Model ----
(***************************************************************************)
(* Verification model of go-dedupe.                                        *)
(*                                                                         *)
(*  SpecReplace : clean-duplicate-files (processBatch, tryLink,            *)
(*                trySymlink) running against a small filesystem, one      *)
(*                system call per step, with a concurrent reader.          *)
(***************************************************************************)
EXTENDS Integers, Sequences, FiniteSets, TLC

(* ---- program variables that more than one of the programs has ---- *)
VARIABLES
    flagRules,  \* the rules: the set of paths each pattern matches (and Exclude)
    seen,       \* find-duplicate-files (part_004): map[SHA256Sum][]string
    results     \* the groups to encode, each with the digest it came from

VARIABLES
    (* ---- filesystem seen by clean-duplicate-files ---- *)
    entry,      \* directory entry of every path: none / file(ino) / symlink(target)
    temp,       \* the live ".incoming.*" directory: what it holds
    litter,     \* destinations next to which a temporary directory was left behind
    mtime,      \* modification time of every inode
    content,    \* content of every inode
    (* ---- program state of clean-duplicate-files ---- *)
    data,       \* the groups read from stdin
    gi,         \* index of the group main is at
    pc,         \* position of the program
    items,      \* processBatch: the Items opened so far / sorted
    best,       \* processBatch: index of the survivor in items (0: none yet)
    k,          \* processBatch: index of the member the replacement loop is at
    ok,         \* tryLink/trySymlink: the value being returned
    why,        \* why tryLink returned false: "exdev" or "other"
    fails,      \* number of injected system-call failures so far
    (* ---- observers ---- *)
    look,       \* what the concurrent reader last found at the destination in flight
    entry0,     \* the directory entries when the current batch started
    touched,    \* destinations tryLink/trySymlink were called on in the current batch
    how,        \* per path: how the last successful replacement was made
    rlog        \* the error records logged by the deferred os.RemoveAll

rvars == <<entry, temp, litter, mtime, content, data, gi, pc, items,
           best, k, ok, why, fails, look, entry0, touched, how, rlog>>

(* ---- grouping and output of the two find-duplicate-files programs ---- *)
VARIABLES
    program,    \* which program runs: "part_004" (digest keys) or "main.go" (Key)
    gfiles,     \* the regular files of the tree: content, device, inode
    gorder,     \* the order in which the walk reaches the files
    gn,         \* number of files scanned so far
    gpc,        \* position of the program
    seenK,      \* main.go: map[Key][]string
    keys        \* main.go: the sorted keys

gvars == <<program, gfiles, gorder, gn, gpc, seenK, keys>>

(* ---- find-duplicate-files (part_004): flags, and one file's cache ---- *)
VARIABLES
    flagXdev,     \* -xdev
    flagRescan,   \* -rescan
    flagMinSize,  \* -min-size
    flagNS,       \* -ns
    cattrs,       \* the file's extended attributes: name -> value or NoAttr
    cfile,        \* the file now: its content and modification time
    last,         \* what the last ScanFile on the file did
    cached,       \* the last scan that computed and saved, if the file's
                  \* size and time are as they were then
    cpc           \* "first": before the first run, "between", "touched":
                  \* between the runs, "end": after the second run

(* ---- find-duplicate-files (part_004): the scan of a tree ---- *)
VARIABLES
    tree,       \* what each entry of the root directory is
    roots,      \* flag.Args(): the paths given
    tattrs,     \* the extended attributes of each path's file
    tpc,        \* "roots", "loop", "dents", "output", "panic"
    ri,         \* main: the roots opened so far
    stack,      \* the Stack of *Item
    cur,        \* ScanDir: it
    dents,      \* ScanDir: the entries read
    di,         \* ScanDir: the entry the loop is at
    child,      \* ScanDir: child
    handles,    \* every os.File opened: its path, the times it was closed,
                \* and whether the program lost it
    sfails,     \* failures injected so far
    tlog,       \* the log records at level Info and above: <<message, path>>
    readdirs    \* the paths whose ReadDir was called, in order

(* ---- the functions checked on their own: codec, glob compiler ---- *)
VARIABLES
    pin,        \* the input drawn
    pout,       \* the result, once the function has been applied
    gc          \* glob.Compiler: err, input, output, depth, char, hasChar, state

pvars == <<pin, pout, gc>>

fvars == <<flagXdev, flagRescan, flagMinSize, flagNS>>
cvars == <<cattrs, cfile, last, cached, cpc>>
tvars == <<tree, roots, tattrs, tpc, ri, stack, cur, dents, di, child, handles,
           sfails, tlog, readdirs>>

notReplace == <<gvars, seen, results, fvars, cvars, tvars, pvars>>
notGroup == <<rvars, flagRules, fvars, cvars, tvars, pvars>>
notCache == <<rvars, gvars, results, tvars, pvars>>
notTree == <<rvars, gvars, cvars, pvars>>
notPure == <<flagRules, seen, results, rvars, gvars, fvars, cvars, tvars>>

vars == <<flagRules, seen, results, rvars, gvars, fvars, cvars, tvars, pvars>>

(* ------------------------------ bounds --------------------------------- *)
NumPaths == 3
MaxFail == 2

Paths == 1..NumPaths

(* ---------------------------- filesystem ------------------------------- *)
None == [kind |-> "none", ino |-> 0, target |-> 0]
FileEnt(i) == [kind |-> "file", ino |-> i, target |-> 0]
SymEnt(q) == [kind |-> "sym", ino |-> 0, target |-> q]

\* The last path lives in a directory of a second device.
DirDev(p) == IF p = NumPaths THEN 2 ELSE 1
\* An inode is named after the first path that holds it.
InoDev(i) == DirDev(i)

RECURSIVE ResolveN(_, _, _)
ResolveN(e, p, n) ==
    IF e[p].kind = "file" THEN e[p].ino
    ELSE IF e[p].kind = "sym" /\ n > 0 THEN ResolveN(e, e[p].target, n - 1)
    ELSE 0

\* stat(2): the inode a path leads to, following symlinks (0: ENOENT)
Resolve(e, p) == ResolveN(e, p, NumPaths)

\* st_nlink of an inode
Nlink(e, t, i) ==
    Cardinality({p \in Paths : e[p] = FileEnt(i)}) + (IF t = FileEnt(i) THEN 1 ELSE 0)

\* what a read through a path returns (0: the path cannot be opened)
Read(e, c, p) == IF Resolve(e, p) = 0 THEN 0 ELSE c[Resolve(e, p)]

(* ------------------------- clean-duplicate-files ----------------------- *)
Cmp(x, y) == IF x < y THEN -1 ELSE IF x > y THEN 1 ELSE 0

RECURSIVE PriorityFrom(_, _, _)
PriorityFrom(list, path, i) ==
    IF i >= Len(list) THEN i
    ELSE IF path \in list[i + 1] THEN i
    ELSE PriorityFrom(list, path, i + 1)

\* Rules.Priority: index of the first rule that matches, or the list length
Priority(list, path) == PriorityFrom(list, path, 0)

NilItem == [nil |-> TRUE, Path |-> 0, Dev |-> 0, Ino |-> 0, Nlink |-> 0,
            Time |-> 0, Priority |-> 0, IsSymlink |-> FALSE]

\* Open of clean-duplicate-files: item.Open (open + fstat, which follow
\* symlinks), then the priority and the lstat comparison.
Open(e, t, mt, rules, path, openOK, lstatOK) ==
    LET i == Resolve(e, path) IN
    IF i = 0 \/ ~openOK THEN NilItem
    ELSE [nil |-> FALSE, Path |-> path, Dev |-> InoDev(i), Ino |-> i,
          Nlink |-> Nlink(e, t, i), Time |-> mt[i],
          Priority |-> Priority(rules, path),
          IsSymlink |-> IF lstatOK THEN e[path].kind = "sym" ELSE TRUE]

\* CompareItems with the hardlink counts compared ascending
CompareItems_NlinkAscending(a, b) ==
    LET o1 == Cmp(a.Priority, b.Priority)
        o2 == IF o1 = 0 THEN Cmp(a.Nlink, b.Nlink) ELSE o1
        o3 == IF o2 = 0 THEN Cmp(a.Time, b.Time) ELSE o2
        o4 == IF o3 = 0 THEN Cmp(a.Path, b.Path) ELSE o3
    IN o4

CompareItems(a, b) ==
    LET o1 == Cmp(a.Priority, b.Priority)
        o2 == IF o1 = 0 THEN 0 - Cmp(a.Nlink, b.Nlink) ELSE o1
        o3 == IF o2 = 0 THEN Cmp(a.Time, b.Time) ELSE o2
        o4 == IF o3 = 0 THEN Cmp(a.Path, b.Path) ELSE o3
    IN o4

Less(a, b) == CompareItems(a, b) < 0

RECURSIVE Insert(_, _)
Insert(s, x) ==
    IF s = <<>> THEN <<x>>
    ELSE IF Less(x, Head(s)) THEN <<x>> \o s
    ELSE <<Head(s)>> \o Insert(Tail(s), x)

RECURSIVE Sort(_)
\* Items.Sort: the items in the order of CompareItems
Sort(s) == IF s = <<>> THEN <<>> ELSE Insert(Sort(Tail(s)), Head(s))

RECURSIVE FirstNonSymlink(_, _)
\* the survivor loop of processBatch: 0-based index of the first item that
\* is not a symlink, or the length of the list
FirstNonSymlink(s, index) ==
    IF index >= Len(s) THEN index
    ELSE IF ~s[index + 1].IsSymlink THEN index
    ELSE FirstNonSymlink(s, index + 1)

SameFile(a, b) == a.Dev = b.Dev /\ a.Ino = b.Ino

\* the variables of the grouping programs while another program is modelled
IdleFlags ==
    flagXdev = FALSE /\ flagRescan = FALSE /\ flagMinSize = 1 /\ flagNS = ""

IdleCache ==
    cattrs = <<>> /\ cfile = <<>> /\ last = <<>> /\ cached = <<>> /\ cpc = ""

IdleTree ==
    /\ tree = <<>> /\ roots = <<>> /\ tattrs = <<>> /\ tpc = "" /\ ri = 0
    /\ stack = <<>> /\ cur = <<>> /\ dents = <<>> /\ di = 0 /\ child = <<>>
    /\ handles = <<>> /\ sfails = 0 /\ tlog = {} /\ readdirs = <<>>

IdleScan == IdleFlags /\ IdleCache /\ IdleTree

NotApplied == [done |-> FALSE]

\* var gc Compiler: the zero value of the struct; panic records that a
\* method of the compiler panicked
ZeroCompiler ==
    [err |-> "", input |-> <<>>, output |-> <<>>, depth |-> 0, char |-> "NUL",
     hasChar |-> FALSE, state |-> "stateDone", panic |-> FALSE]

IdlePure == pin = <<>> /\ pout = NotApplied /\ gc = ZeroCompiler

IdleGroup ==
    /\ program = "" /\ gfiles = <<>> /\ gorder = <<>> /\ gn = 0 /\ gpc = ""
    /\ seenK = <<>> /\ keys = <<>>

(* ------------------------ SpecReplace: Init ---------------------------- *)
EntrySet(p) ==
    {None, FileEnt(p), SymEnt((p % NumPaths) + 1), SymEnt(IF p = NumPaths THEN 1 ELSE NumPaths)}
        \cup (IF p > 1 THEN {FileEnt(i) : i \in 1..(p - 1)} ELSE {})

\* A directory entry names an inode of its own device that some path
\* introduced; a symlink points at a file.
LayoutOK(e) ==
    \A p \in Paths :
        /\ e[p].kind = "file" /\ e[p].ino # p =>
              /\ e[p - 1] = FileEnt(e[p].ino)
              /\ DirDev(p) = InoDev(e[p].ino)
        /\ e[p].kind = "sym" => e[e[p].target].kind = "file"

Interval(a, b) == [j \in 1..(b - a + 1) |-> a + j - 1]

\* stdin: one group of the first paths, or two groups that split the paths
DataSet ==
    {<<Interval(1, j)>> : j \in 2..NumPaths}
        \cup {<<Interval(1, j), Interval(j + 1, NumPaths)>> : j \in 1..(NumPaths - 1)}

\* The members of a group are duplicates: what can be read through them is
\* the same content.
DuplicatesOK(d, e, c) ==
    \A g \in 1..Len(d) : \A i, j \in 1..Len(d[g]) :
        Read(e, c, d[g][i]) # 0 /\ Read(e, c, d[g][j]) # 0
            => Read(e, c, d[g][i]) = Read(e, c, d[g][j])

RulesSet == {<<>>, <<{2}>>, <<{NumPaths}, {1, 2}>>}

MtimeSet == {[i \in Paths |-> IF i = old THEN 0 ELSE 1] : old \in 0..NumPaths}

NoTemp == [exists |-> FALSE, ent |-> None]

\* the variables of clean-duplicate-files while another program is modelled
IdleReplace ==
    /\ entry = <<>> /\ temp = NoTemp /\ litter = {} /\ mtime = <<>>
    /\ content = <<>> /\ data = <<>> /\ gi = 0 /\ pc = ""
    /\ items = <<>> /\ best = 0 /\ k = 0 /\ ok = FALSE /\ why = "" /\ fails = 0
    /\ look = "" /\ entry0 = <<>> /\ touched = {} /\ how = <<>> /\ rlog = {}

\* the variables of the programs while one function is checked
IdlePrograms ==
    /\ flagRules = <<>> /\ seen = <<>> /\ results = <<>>
    /\ IdleReplace /\ IdleGroup /\ IdleScan

InitReplace ==
    /\ data \in DataSet
    /\ content \in [Paths -> 1..2]
    /\ entry \in {e \in [Paths -> UNION {EntrySet(p) : p \in Paths}] :
                     /\ \A p \in Paths : e[p] \in EntrySet(p)
                     /\ LayoutOK(e)
                     /\ DuplicatesOK(data, e, content)
                     \* an inode that no path holds has the default content
                     /\ \A p \in Paths : e[p] # FileEnt(p) => content[p] = 1}
    /\ mtime \in MtimeSet
    /\ flagRules \in RulesSet
    /\ temp = NoTemp
    /\ litter = {}
    /\ gi = 1
    /\ pc = "main"
    /\ items = <<>>
    /\ best = 0
    /\ k = 0
    /\ ok = FALSE
    /\ why = ""
    /\ fails = 0
    /\ look = "idle"
    /\ entry0 = entry
    /\ touched = {}
    /\ how = [p \in Paths |-> ""]
    /\ rlog = {}
    /\ seen = <<>> /\ results = <<>>
    /\ IdleGroup
    /\ IdleScan
    /\ IdlePure

(* ----------------------- SpecReplace: actions -------------------------- *)
CanFail == fails < MaxFail

paths == data[gi]
dst == items[k].Path
src == items[best].Path

InFlight == pc \in {"lk_mkdir", "lk_link", "lk_remove", "lk_rename", "lk_defer",
                    "sl_abs", "sl_mkdir", "sl_symlink", "sl_remove", "sl_rename",
                    "sl_defer"}

\* main: the loop over the groups has ended
MainDone ==
    /\ UNCHANGED <<notReplace, rlog>>
    /\ pc = "main" /\ gi > Len(data)
    /\ pc' = "done"
    /\ UNCHANGED <<entry, temp, litter, mtime, content, data, flagRules, gi, items, best,
                   k, ok, why, fails, look, entry0, touched, how>>

\* processBatch: a group of at most one path is left alone
BatchTooSmall ==
    /\ UNCHANGED <<notReplace, rlog>>
    /\ pc = "main" /\ gi <= Len(data) /\ Len(paths) <= 1
    /\ gi' = gi + 1
    /\ entry0' = entry /\ touched' = {}
    /\ UNCHANGED <<entry, temp, litter, mtime, content, data, flagRules, pc, items, best,
                   k, ok, why, fails, look, how>>

BatchStart ==
    /\ UNCHANGED <<notReplace, rlog>>
    /\ pc = "main" /\ gi <= Len(data) /\ Len(paths) > 1
    /\ pc' = "open"
    /\ items' = <<>> /\ best' = 0 /\ k' = 0
    /\ entry0' = entry /\ touched' = {}
    /\ UNCHANGED <<entry, temp, litter, mtime, content, data, flagRules, gi, ok, why,
                   fails, look, how>>

\* processBatch: items = append(items, Open(path))
OpenItem ==
    /\ UNCHANGED <<notReplace, rlog>>
    /\ pc = "open" /\ Len(items) < Len(paths)
    /\ \E openOK \in BOOLEAN, lstatOK \in BOOLEAN :
          /\ (openOK /\ lstatOK) \/ CanFail
          /\ ~openOK => lstatOK
          /\ ~openOK => Resolve(entry, paths[Len(items) + 1]) # 0
          /\ fails' = IF openOK /\ lstatOK THEN fails ELSE fails + 1
          /\ items' = Append(items, Open(entry, temp.ent, mtime, flagRules,
                                         paths[Len(items) + 1], openOK, lstatOK))
    /\ UNCHANGED <<entry, temp, litter, mtime, content, data, flagRules, gi, pc, best, k,
                   ok, why, look, entry0, touched, how>>

\* processBatch: items.Sort() dereferences every item; a nil one panics
SortPanic ==
    /\ UNCHANGED <<notReplace, rlog>>
    /\ pc = "open" /\ Len(items) = Len(paths)
    /\ \E j \in 1..Len(items) : items[j].nil
    /\ pc' = "panic"
    /\ UNCHANGED <<entry, temp, litter, mtime, content, data, flagRules, gi, items, best,
                   k, ok, why, fails, look, entry0, touched, how>>

SortItems ==
    /\ UNCHANGED <<notReplace, rlog>>
    /\ pc = "open" /\ Len(items) = Len(paths)
    /\ \A j \in 1..Len(items) : ~items[j].nil
    /\ items' = Sort(items)
    /\ pc' = "select"
    /\ UNCHANGED <<entry, temp, litter, mtime, content, data, flagRules, gi, best, k, ok,
                   why, fails, look, entry0, touched, how>>

\* processBatch: every item is a symlink, the group is skipped
SelectNone ==
    /\ UNCHANGED <<notReplace, rlog>>
    /\ pc = "select" /\ FirstNonSymlink(items, 0) >= Len(items)
    /\ pc' = "main" /\ gi' = gi + 1
    /\ UNCHANGED <<entry, temp, litter, mtime, content, data, flagRules, items, best, k,
                   ok, why, fails, look, entry0, touched, how>>

SelectBest ==
    /\ UNCHANGED <<notReplace, rlog>>
    /\ pc = "select" /\ FirstNonSymlink(items, 0) < Len(items)
    /\ best' = FirstNonSymlink(items, 0) + 1
    /\ k' = 1
    /\ pc' = "loop"
    /\ UNCHANGED <<entry, temp, litter, mtime, content, data, flagRules, gi, items, ok,
                   why, fails, look, entry0, touched, how>>

\* processBatch: the loop over the items has ended
BatchReturn ==
    /\ UNCHANGED <<notReplace, rlog>>
    /\ pc = "loop" /\ k > Len(items)
    /\ pc' = "main" /\ gi' = gi + 1
    /\ UNCHANGED <<entry, temp, litter, mtime, content, data, flagRules, items, best, k,
                   ok, why, fails, look, entry0, touched, how>>

\* the skip condition never holding
SkipCond_Never(it, b) == FALSE

\* the skip condition without its symlink test
SkipCond_NoSymlinkTest(it, b) == SameFile(it, b)

\* the member's skip condition in processBatch
SkipCond(it, b) == SameFile(it, b) /\ ~it.IsSymlink

\* processBatch: the survivor itself, or a member that already is the survivor's file
SkipMember ==
    /\ UNCHANGED <<notReplace, rlog>>
    /\ pc = "loop" /\ k <= Len(items)
    /\ k = best \/ SkipCond(items[k], items[best])
    /\ k' = k + 1
    /\ UNCHANGED <<entry, temp, litter, mtime, content, data, flagRules, gi, pc, items,
                   best, ok, why, fails, look, entry0, touched, how>>

\* processBatch: ok := tryLink(best.Path, it.Path)
StartReplace ==
    /\ UNCHANGED <<notReplace, rlog>>
    /\ pc = "loop" /\ k <= Len(items)
    /\ k # best /\ ~SkipCond(items[k], items[best])
    /\ pc' = "lk_mkdir"
    /\ touched' = touched \cup {dst}
    /\ look' = "idle" /\ why' = "" /\ ok' = FALSE
    /\ UNCHANGED <<entry, temp, litter, mtime, content, data, flagRules, gi, items, best,
                   k, fails, entry0, how>>

(* ------------------------------ tryLink -------------------------------- *)
\* os.MkdirTemp(dstDir, tempDirPattern)
LkMkdirTemp ==
    /\ UNCHANGED <<notReplace, rlog>>
    /\ pc = "lk_mkdir"
    /\ \/ /\ temp' = [exists |-> TRUE, ent |-> None]
          /\ pc' = "lk_link"
          /\ UNCHANGED <<fails, why>>
       \/ /\ CanFail /\ fails' = fails + 1
          /\ why' = "other"
          /\ pc' = "sl_abs"
          /\ UNCHANGED temp
    /\ UNCHANGED <<entry, litter, mtime, content, data, flagRules, gi, items, best, k, ok,
                   look, entry0, touched, how>>

\* link(2) refuses to cross devices
LinkEXDEV(e, s, d) == e[s].kind = "file" /\ InoDev(e[s].ino) # DirDev(d)

\* os.Link(srcPath, tempPath)
LkLink ==
    /\ UNCHANGED <<notReplace, rlog>>
    /\ pc = "lk_link"
    /\ \/ /\ LinkEXDEV(entry, src, dst)
          /\ why' = "exdev" /\ pc' = "lk_defer"
          /\ UNCHANGED <<temp, fails>>
       \/ /\ ~LinkEXDEV(entry, src, dst)
          /\ \/ /\ temp' = [temp EXCEPT !.ent = entry[src]]
                /\ pc' = "lk_remove"
                /\ UNCHANGED <<fails, why>>
             \/ /\ CanFail /\ fails' = fails + 1
                /\ why' = "other" /\ pc' = "lk_defer"
                /\ UNCHANGED temp
    /\ ok' = FALSE
    /\ UNCHANGED <<entry, litter, mtime, content, data, flagRules, gi, items, best, k,
                   look, entry0, touched, how>>

\* _ = os.Remove(dstPath): the directory entries after the call
Remove(e, d) == [e EXCEPT ![d] = None]

LkRemove ==
    /\ UNCHANGED <<notReplace, rlog>>
    /\ pc = "lk_remove"
    /\ \/ /\ entry' = Remove(entry, dst)
          /\ UNCHANGED fails
       \/ /\ entry[dst] # None /\ CanFail /\ fails' = fails + 1
          /\ UNCHANGED entry
    /\ pc' = "lk_rename"
    /\ UNCHANGED <<temp, litter, mtime, content, data, flagRules, gi, items, best, k, ok,
                   why, look, entry0, touched, how>>

\* os.Rename(tempPath, dstPath): the directory entries after a successful call
Rename(e, t, d) == [e EXCEPT ![d] = t.ent]

LkRename ==
    /\ UNCHANGED <<notReplace, rlog>>
    /\ pc = "lk_rename"
    /\ \/ /\ entry' = Rename(entry, temp, dst)
          /\ temp' = [temp EXCEPT !.ent = None]
          /\ how' = [how EXCEPT ![dst] = "link"]
          /\ ok' = TRUE
          /\ UNCHANGED <<fails, why>>
       \/ /\ CanFail /\ fails' = fails + 1
          /\ why' = "other" /\ ok' = FALSE
          /\ UNCHANGED <<entry, temp, how>>
    /\ pc' = "lk_defer"
    /\ UNCHANGED <<litter, mtime, content, data, flagRules, gi, items, best, k, look,
                   entry0, touched>>

\* LkDefer without the deferred os.RemoveAll: the directory stays
LkDefer_NoRemoveAll ==
    /\ UNCHANGED notReplace
    /\ pc = "lk_defer"
    /\ litter' = litter \cup {dst}
    /\ UNCHANGED <<fails, rlog>>
    /\ temp' = NoTemp
    /\ IF ok THEN pc' = "loop" /\ k' = k + 1
             ELSE pc' = "sl_abs" /\ k' = k
    /\ UNCHANGED <<entry, mtime, content, data, flagRules, gi, items, best, ok, why, look,
                   entry0, touched, how>>

\* LkDefer with trySymlink called whatever tryLink returned
LkDefer_ThenSymlink ==
    /\ UNCHANGED notReplace
    /\ pc = "lk_defer"
    /\ UNCHANGED <<fails, litter, rlog>>
    /\ temp' = NoTemp
    /\ pc' = "sl_abs" /\ k' = k
    /\ UNCHANGED <<entry, mtime, content, data, flagRules, gi, items, best, ok, why, look,
                   entry0, touched, how>>

\* the deferred os.RemoveAll(tempDir), then the return to processBatch
LkDefer ==
    /\ UNCHANGED notReplace
    /\ pc = "lk_defer"
    /\ \/ UNCHANGED <<fails, litter, rlog>>
       \/ /\ CanFail /\ fails' = fails + 1
          /\ litter' = litter \cup {dst}
          /\ rlog' = rlog \cup {<<"failed to delete temporary directory", dst>>}
    /\ temp' = NoTemp
    /\ IF ok THEN pc' = "loop" /\ k' = k + 1
             ELSE pc' = "sl_abs" /\ k' = k
    /\ UNCHANGED <<entry, mtime, content, data, flagRules, gi, items, best, ok, why, look,
                   entry0, touched, how>>

(* ----------------------------- trySymlink ------------------------------ *)
\* filepath.Abs(srcPath), and filepath.Rel(dstDir, srcAbs) under -rel
SlAbs ==
    /\ UNCHANGED <<notReplace, rlog>>
    /\ pc = "sl_abs"
    /\ \/ /\ pc' = "sl_mkdir"
          /\ UNCHANGED fails
       \/ /\ CanFail /\ fails' = fails + 1
          /\ pc' = "fatal"
    /\ ok' = FALSE
    /\ UNCHANGED <<entry, temp, litter, mtime, content, data, flagRules, gi, items, best,
                   k, why, look, entry0, touched, how>>

SlMkdirTemp ==
    /\ UNCHANGED <<notReplace, rlog>>
    /\ pc = "sl_mkdir"
    /\ \/ /\ temp' = [exists |-> TRUE, ent |-> None]
          /\ pc' = "sl_symlink"
          /\ UNCHANGED fails
       \/ /\ CanFail /\ fails' = fails + 1
          /\ pc' = "fatal"
          /\ UNCHANGED temp
    /\ UNCHANGED <<entry, litter, mtime, content, data, flagRules, gi, items, best, k, ok,
                   why, look, entry0, touched, how>>

\* os.Symlink(srcLink, tempPath)
SlSymlink ==
    /\ UNCHANGED <<notReplace, rlog>>
    /\ pc = "sl_symlink"
    /\ \/ /\ temp' = [temp EXCEPT !.ent = SymEnt(src)]
          /\ pc' = "sl_remove"
          /\ UNCHANGED fails
       \/ /\ CanFail /\ fails' = fails + 1
          /\ pc' = "sl_defer"
          /\ UNCHANGED temp
    /\ UNCHANGED <<entry, litter, mtime, content, data, flagRules, gi, items, best, k, ok,
                   why, look, entry0, touched, how>>

SlRemove ==
    /\ UNCHANGED <<notReplace, rlog>>
    /\ pc = "sl_remove"
    /\ \/ /\ entry' = Remove(entry, dst)
          /\ UNCHANGED fails
       \/ /\ entry[dst] # None /\ CanFail /\ fails' = fails + 1
          /\ UNCHANGED entry
    /\ pc' = "sl_rename"
    /\ UNCHANGED <<temp, litter, mtime, content, data, flagRules, gi, items, best, k, ok,
                   why, look, entry0, touched, how>>

SlRename ==
    /\ UNCHANGED <<notReplace, rlog>>
    /\ pc = "sl_rename"
    /\ \/ /\ entry' = Rename(entry, temp, dst)
          /\ temp' = [temp EXCEPT !.ent = None]
          /\ how' = [how EXCEPT ![dst] = IF why = "exdev" THEN "symlink-xdev"
                                                          ELSE "symlink-other"]
          /\ ok' = TRUE
          /\ UNCHANGED fails
       \/ /\ CanFail /\ fails' = fails + 1
          /\ ok' = FALSE
          /\ UNCHANGED <<entry, temp, how>>
    /\ pc' = "sl_defer"
    /\ UNCHANGED <<litter, mtime, content, data, flagRules, gi, items, best, k, why, look,
                   entry0, touched>>

\* SlDefer with processBatch going on to the next member whatever
\* trySymlink returned
SlDefer_KeepGoing ==
    /\ UNCHANGED notReplace
    /\ pc = "sl_defer"
    /\ \/ UNCHANGED <<fails, litter, rlog>>
       \/ /\ CanFail /\ fails' = fails + 1
          /\ litter' = litter \cup {dst}
          /\ rlog' = rlog \cup {<<"failed to delete temporary directory", dst>>}
    /\ temp' = NoTemp
    /\ pc' = "loop" /\ k' = k + 1
    /\ UNCHANGED <<entry, mtime, content, data, flagRules, gi, items, best, ok, why, look,
                   entry0, touched, how>>

\* the deferred os.RemoveAll(tempDir), then the return to processBatch, which
\* exits the process when both attempts failed
SlDefer ==
    /\ UNCHANGED notReplace
    /\ pc = "sl_defer"
    /\ \/ UNCHANGED <<fails, litter, rlog>>
       \/ /\ CanFail /\ fails' = fails + 1
          /\ litter' = litter \cup {dst}
          /\ rlog' = rlog \cup {<<"failed to delete temporary directory", dst>>}
    /\ temp' = NoTemp
    /\ IF ok THEN pc' = "loop" /\ k' = k + 1
             ELSE pc' = "fatal" /\ k' = k
    /\ UNCHANGED <<entry, mtime, content, data, flagRules, gi, items, best, ok, why, look,
                   entry0, touched, how>>

(* --------------------------- concurrent reader ------------------------- *)
\* Another process looks the destination up while it is being replaced.
Reader ==
    /\ UNCHANGED <<notReplace, rlog>>
    /\ InFlight
    /\ look' = IF entry[dst] = None THEN "miss" ELSE "hit"
    /\ UNCHANGED <<entry, temp, litter, mtime, content, data, flagRules, gi, pc, items,
                   best, k, ok, why, fails, entry0, touched, how>>

NextReplace ==
    \/ MainDone \/ BatchTooSmall \/ BatchStart \/ OpenItem \/ SortPanic
    \/ SortItems \/ SelectNone \/ SelectBest \/ BatchReturn \/ SkipMember
    \/ StartReplace \/ LkMkdirTemp \/ LkLink \/ LkRemove \/ LkRename \/ LkDefer
    \/ SlAbs \/ SlMkdirTemp \/ SlSymlink \/ SlRemove \/ SlRename \/ SlDefer
    \/ Reader

SpecReplace == InitReplace /\ [][NextReplace]_vars

TypeReplace == pc \in {"main", "open", "select", "loop", "done", "panic", "fatal"} \/ InFlight


(* ======================= claims on SpecReplace ========================= *)
\* processBatch has handled every member of the current group
Completed == pc = "loop" /\ k > Len(items)

\* C1: a concurrent reader that looks the destination up between the steps
\* of tryLink/trySymlink never finds it missing.
C1_NeverObservedMissing == look # "miss"

\* how tryLink/trySymlink may leave a member: `symlinkWhen` are the reasons
\* of the hardlink failure after which a symlink is acceptable
MemberLinked(p, symlinkWhen) ==
    /\ \/ entry[p] = FileEnt(items[best].Ino)
       \/ entry[p] = SymEnt(src) /\ how[p] \in symlinkWhen
    /\ Read(entry, content, p) = Read(entry0, content, p)

\* C2 (as stated): after processBatch completes on a group with a survivor,
\* every member is a hardlink to the survivor's inode or, when the hardlink
\* failed because of different devices, a symlink to the survivor, and reads
\* the same content as before.
C2_LinkOrXdevSymlink ==
    Completed => \A j \in 1..Len(items) : MemberLinked(items[j].Path, {"symlink-xdev"})

\* C2 (amended): after processBatch completes on a group with a survivor,
\* every member is a hardlink to the survivor's inode or, when tryLink
\* failed for any reason, a symlink to the survivor made by trySymlink, and
\* reads the same content as before.
C2_LinkOrFallbackSymlink ==
    Completed => \A j \in 1..Len(items) :
        MemberLinked(items[j].Path, {"symlink-xdev", "symlink-other"})

C2_Witness ==
    /\ Completed
    /\ \E p, q \in Paths : how[p] = "symlink-xdev" /\ how[q] = "link"

\* C3: when tryLink or trySymlink has returned false, or processBatch has
\* aborted, every destination that existed before the batch still exists, as
\* its original entry or as a link to the survivor.
C3_FailureKeepsDestinations ==
    pc \in {"sl_abs", "fatal"} =>
        \A p \in Paths : entry0[p] # None =>
            \/ entry[p] = entry0[p]
            \/ entry[p] # None /\ Resolve(entry, p) = items[best].Ino

\* the order of the survivor selection, written out
RankedBefore(a, b) ==
    \/ a.Priority < b.Priority
    \/ a.Priority = b.Priority /\ a.Nlink > b.Nlink
    \/ a.Priority = b.Priority /\ a.Nlink = b.Nlink /\ a.Time < b.Time
    \/ a.Priority = b.Priority /\ a.Nlink = b.Nlink /\ a.Time = b.Time /\ a.Path < b.Path

Unreplaced(p) == p \in touched /\ how[p] = ""

\* C11: when both the hardlink and the symlink attempt have failed for a
\* member the run aborts there: the program is past a failed member only in
\* the aborted state, where it takes no further step, so no later member or
\* group is touched.
C11_AbortOnDoubleFailure ==
    /\ [](\A p \in Paths : Unreplaced(p) =>
              \/ InFlight /\ p = dst
              \/ pc = "fatal" /\ p = dst)
    /\ [][pc # "fatal"]_vars

\* both attempts failed on a member while a later member of the group still
\* waits for its replacement
C11_Witness ==
    /\ pc = "fatal" /\ Unreplaced(dst)
    /\ \E j \in (k + 1)..Len(items) : j # best /\ ~SkipCond(items[j], items[best])

\* the positions of tryLink and trySymlink between MkdirTemp and the return
HoldsTemp == pc \in {"lk_link", "lk_remove", "lk_rename", "lk_defer",
                     "sl_symlink", "sl_remove", "sl_rename", "sl_defer"}

\* C12 as stated: a temporary directory exists only inside the call that
\* made it, whatever path the call returns by, and none is ever left next to
\* a destination.
C12_NoTempRemains ==
    /\ temp.exists => HoldsTemp
    /\ litter = {}

\* C12 (amended): a temporary directory exists only inside the call that
\* made it, and one is left next to a destination only where the deferred
\* os.RemoveAll itself failed and the failure was logged.
C12_NoTempRemainsUnlessRemoveAllFails ==
    /\ temp.exists => HoldsTemp
    /\ \A d \in litter : <<"failed to delete temporary directory", d>> \in rlog

\* tryLink has returned false after its rename failed, with nothing left
C12_Witness ==
    /\ pc = "sl_abs" /\ entry0[dst] # None /\ entry[dst] = None
    /\ ~temp.exists /\ litter = {}

\* processBatch has chosen its survivor and has not returned to main
InBatch == best # 0 /\ pc \notin {"main", "done"}

\* the path is as it was when the batch started: never a destination, the
\* same directory entry, the same content
Untouched(p) ==
    /\ p \notin touched
    /\ entry[p] = entry0[p]
    /\ Read(entry, content, p) = Read(entry0, content, p)

\* C13 as stated: the batch leaves alone the survivor's path and every
\* member that has the survivor's device and inode and is not a symlink.
C13_SurvivorAndSameFileUntouched ==
    InBatch => \A j \in 1..Len(items) :
        (j = best \/ (SameFile(items[j], items[best])
                        /\ entry0[items[j].Path].kind = "file"))
            => Untouched(items[j].Path)

\* C13 (amended): the batch leaves alone the survivor's path and every member
\* that has the survivor's device and inode and whose IsSymlink flag is unset
\* (lstat succeeded and reported the mode of the opened file).
C13_SurvivorAndUnflaggedSameFileUntouched ==
    InBatch => \A j \in 1..Len(items) :
        (j = best \/ (SameFile(items[j], items[best]) /\ ~items[j].IsSymlink))
            => Untouched(items[j].Path)

\* a batch has replaced a member and skipped a hardlink of the survivor
C13_Witness ==
    /\ Completed /\ touched # {}
    /\ \E j \in 1..Len(items) :
          /\ j # best /\ SameFile(items[j], items[best]) /\ ~items[j].IsSymlink
          /\ items[j].Path \notin touched

\* the step is the rename of trySymlink that puts the symlink in the place
\* of the destination
SymlinkReplaces == pc = "sl_rename" /\ entry'[dst] # entry[dst]

\* C29 (as stated): processBatch replaces a destination by a symlink only
\* when the hardlink attempt failed because survivor and destination are on
\* different devices; after any other failure of tryLink no symlink replaces
\* the destination.
C29_SymlinkOnlyOnXdev == [][SymlinkReplaces => why = "exdev"]_vars

\* C29 (amended): processBatch replaces a destination by a symlink to the
\* survivor only after tryLink returned false for that destination, because
\* of different devices or for any other reason; a destination whose
\* tryLink succeeded is not replaced by a symlink.
C29_SymlinkOnlyAfterFailedLink ==
    [][SymlinkReplaces =>
          /\ why \in {"exdev", "other"}
          /\ why = "exdev" => LinkEXDEV(entry, src, dst)
          /\ how[dst] # "link"
          /\ entry'[dst] = SymEnt(src)]_vars

\* trySymlink has put a symlink in the place of a destination on the
\* survivor's device, after a failure of tryLink other than EXDEV
C29_Witness ==
    /\ pc = "sl_defer" /\ ok /\ why = "other"
    /\ ~LinkEXDEV(entry, src, dst)
    /\ entry[dst] = SymEnt(src)

\* Open returned nil for a path of the current group
AbsentItem == \E j \in 1..Len(items) : items[j].nil

\* C33: processBatch never uses an absent Item: when Open returned nil for a
\* path of a group of two or more paths, the batch does not crash in the
\* sort, the survivor selection or the member loop, and the path that could
\* not be opened is left as it was.
C33_AbsentItemNotUsed ==
    /\ pc # "panic"
    /\ (pc \notin {"main", "done"} /\ best # 0) => ~items[best].nil
    /\ \A j \in 1..Len(items) :
          items[j].nil => paths[j] \notin touched /\ entry[paths[j]] = entry0[paths[j]]

(* =================== grouping and output (SpecGroup) =================== *)
NumFiles == 4
NumContents == 3

MD5Size == 16
SHA1Size == 20
SHA256Size == 32

\* The digest of a content: a fixed byte string per content and width,
\* different for different contents.
SumByte(c, j) == (712 - 90 * c + 17 * j * c) % 256
Sum(width, c) == [j \in 1..width |-> SumByte(c, j + (SHA256Size - width))]

CompareByte(a, b) == IF a < b THEN -1 ELSE IF a > b THEN 1 ELSE 0
CompareUint64(a, b) == IF a < b THEN -1 ELSE IF a > b THEN 1 ELSE 0

RECURSIVE CompareSHA256From(_, _, _)
CompareSHA256From(a, b, i) ==
    IF i >= SHA256Size THEN 0
    ELSE IF CompareByte(a[i + 1], b[i + 1]) # 0 THEN CompareByte(a[i + 1], b[i + 1])
    ELSE CompareSHA256From(a, b, i + 1)

\* CompareSHA256 that looks at the last byte only
CompareSHA256_LastByte(a, b) == CompareByte(a[SHA256Size], b[SHA256Size])

CompareSHA256(a, b) == CompareSHA256From(a, b, 0)

\* Key.CompareTo
CompareTo(key, other) ==
    LET c1 == CompareSHA256(key.Hash, other.Hash)
        c2 == IF c1 = 0 THEN CompareUint64(key.Dev, other.Dev) ELSE c1
        c3 == IF c2 = 0 THEN CompareUint64(key.Ino, other.Ino) ELSE c2
    IN c3

RECURSIVE InsertHash(_, _)
InsertHash(s, x) ==
    IF s = <<>> THEN <<x>>
    ELSE IF CompareSHA256(x, Head(s)) < 0 THEN <<x>> \o s
    ELSE <<Head(s)>> \o InsertHash(Tail(s), x)

RECURSIVE InsertKey(_, _)
InsertKey(s, x) ==
    IF s = <<>> THEN <<x>>
    ELSE IF CompareTo(x, Head(s)) < 0 THEN <<x>> \o s
    ELSE <<Head(s)>> \o InsertKey(Tail(s), x)

RECURSIVE InsertString(_, _)
InsertString(s, x) ==
    IF s = <<>> THEN <<x>>
    ELSE IF x < Head(s) THEN <<x>> \o s
    ELSE <<Head(s)>> \o InsertString(Tail(s), x)

RECURSIVE SortStrings(_)
\* sort.Strings; a path is a number, ordered as its string is
SortStrings(s) == IF s = <<>> THEN <<>> ELSE InsertString(SortStrings(Tail(s)), Head(s))

RECURSIVE SortedHashes(_)
\* the keys of a map, appended in the map's order and sorted as SHA256List
SortedHashes(S) ==
    IF S = {} THEN <<>>
    ELSE LET x == CHOOSE x \in S : TRUE IN InsertHash(SortedHashes(S \ {x}), x)

RECURSIVE SortedKeys(_)
\* the keys of a map, appended in the map's order and sorted as KeyList
SortedKeys(S) ==
    IF S = {} THEN <<>>
    ELSE LET x == CHOOSE x \in S : TRUE IN InsertKey(SortedKeys(S \ {x}), x)

\* list := m[key]; list = append(list, path); m[key] = list
AddPath(m, key, path) ==
    IF key \in DOMAIN m THEN [m EXCEPT ![key] = Append(@, path)]
    ELSE m @@ (key :> <<path>>)

\* the groups with no more than one path, kept as well
Emit_KeepSingles(m, hashes) ==
    [i \in 1..Len(hashes) |-> [hash |-> hashes[i], paths |-> m[hashes[i]]]]

\* the result loop of both programs: the lists of more than one path, in
\* the order of the sorted digests
Emit(m, hashes) ==
    LET keep == SelectSeq(hashes, LAMBDA h : ~(Len(m[h]) <= 1))
    IN [i \in 1..Len(keep) |-> [hash |-> keep[i], paths |-> m[keep[i]]]]

\* part_004, main: hashes.Sort() and the result loop
Results4(m) == Emit(m, SortedHashes(DOMAIN m))

\* reduction that keeps every path of a key
ByHash_AllPaths(m, ks) ==
    LET RECURSIVE Go(_, _)
        Go(i, acc) ==
            IF i > Len(ks) THEN acc
            ELSE LET RECURSIVE All(_, _)
                     All(j, a) == IF j > Len(m[ks[i]]) THEN a
                                  ELSE All(j + 1, AddPath(a, ks[i].Hash, SortStrings(m[ks[i]])[j]))
                 IN Go(i + 1, All(1, acc))
    IN Go(1, <<>>)

\* main.go, main: seenByHash, one representative path per key
ByHash(m, ks) ==
    LET RECURSIVE Go(_, _)
        Go(i, acc) ==
            IF i > Len(ks) THEN acc
            ELSE Go(i + 1, AddPath(acc, ks[i].Hash, SortStrings(m[ks[i]])[1]))
    IN Go(1, <<>>)

\* main.go, main: the second sort and the result loop
ResultsK(m, ks) == LET byHash == ByHash(m, ks) IN Emit(byHash, SortedHashes(DOMAIN byHash))

KeyOf(f) == [Hash |-> Sum(SHA256Size, f.content), Dev |-> f.Dev, Ino |-> f.Ino]

GFiles == 1..NumFiles

InitGroup ==
    /\ program \in {"part_004", "main.go"}
    /\ gfiles \in {fs \in [GFiles -> [content : 1..NumContents, Dev : 1..2, Ino : 1..2]] :
                      \* the paths of one inode read the same content
                      \A a, b \in GFiles :
                          fs[a].Dev = fs[b].Dev /\ fs[a].Ino = fs[b].Ino
                              => fs[a].content = fs[b].content}
    /\ gorder \in {[i \in GFiles |-> i], [i \in GFiles |-> NumFiles + 1 - i]}
    /\ gn = 0
    /\ gpc = "scan"
    /\ seen = <<>> /\ seenK = <<>> /\ keys = <<>> /\ results = <<>>
    /\ flagRules = <<>>
    /\ IdleReplace
    /\ IdleScan
    /\ IdlePure

\* part_004, ScanFile: the path is appended to the list of its digest
GroupScan4 ==
    /\ UNCHANGED notGroup
    /\ gpc = "scan" /\ program = "part_004" /\ gn < NumFiles
    /\ seen' = AddPath(seen, Sum(SHA256Size, gfiles[gorder[gn + 1]].content), gorder[gn + 1])
    /\ gn' = gn + 1
    /\ UNCHANGED <<program, gfiles, gorder, gpc, seenK, keys, results>>

\* main.go, ScanFile: the path is appended to the list of its Key
GroupScanK ==
    /\ UNCHANGED notGroup
    /\ gpc = "scan" /\ program = "main.go" /\ gn < NumFiles
    /\ seenK' = AddPath(seenK, KeyOf(gfiles[gorder[gn + 1]]), gorder[gn + 1])
    /\ gn' = gn + 1
    /\ UNCHANGED <<program, gfiles, gorder, gpc, seen, keys, results>>

\* part_004, main: the output step
GroupEmit4 ==
    /\ UNCHANGED notGroup
    /\ gpc = "scan" /\ program = "part_004" /\ gn = NumFiles
    /\ results' = Results4(seen)
    /\ gpc' = "output"
    /\ UNCHANGED <<program, gfiles, gorder, gn, seen, seenK, keys>>

\* main.go, main: the two-phase reduction and the output step
GroupEmitK ==
    /\ UNCHANGED notGroup
    /\ gpc = "scan" /\ program = "main.go" /\ gn = NumFiles
    /\ keys' = SortedKeys(DOMAIN seenK)
    /\ results' = ResultsK(seenK, keys')
    /\ gpc' = "output"
    /\ UNCHANGED <<program, gfiles, gorder, gn, seen, seenK>>

NextGroup == GroupScan4 \/ GroupScanK \/ GroupEmit4 \/ GroupEmitK

SpecGroup == InitGroup /\ [][NextGroup]_vars

(* ======================== claims on SpecGroup ========================== *)
\* a is before b, byte by byte
LexLess(a, b) ==
    \E n \in 1..SHA256Size : a[n] < b[n] /\ \A m \in 1..(n - 1) : a[m] = b[m]

KeyLexLess(a, b) ==
    \/ LexLess(a.Hash, b.Hash)
    \/ a.Hash = b.Hash /\ a.Dev < b.Dev
    \/ a.Hash = b.Hash /\ a.Dev = b.Dev /\ a.Ino < b.Ino

\* C7: the emitted result has only groups of at least two paths, all of the
\* group's digest, and the groups are in strictly ascending byte order of
\* their digests (so no digest has two groups); the keys of main.go are in
\* strictly ascending order of digest, then device, then inode.
C7_ResultSortedNoSingles ==
    gpc = "output" =>
        /\ \A i \in 1..Len(results) :
              /\ Len(results[i].paths) >= 2
              /\ \A j \in 1..Len(results[i].paths) :
                    Sum(SHA256Size, gfiles[results[i].paths[j]].content) = results[i].hash
        /\ \A i, j \in 1..Len(results) : i < j => LexLess(results[i].hash, results[j].hash)
        /\ \A i, j \in 1..Len(keys) : i < j => KeyLexLess(keys[i], keys[j])

\* two groups are emitted, from keys that differ in digest and in inode
C7_Witness ==
    /\ gpc = "output" /\ program = "main.go"
    /\ Len(results) >= 2 /\ Len(keys) >= 4

\* the identities (device, inode) of the files of a content
Identities(c) == {<<gfiles[f].Dev, gfiles[f].Ino>> : f \in {g \in GFiles : gfiles[g].content = c}}

\* the smallest path of an identity
Representative(id) ==
    CHOOSE p \in GFiles :
        /\ <<gfiles[p].Dev, gfiles[p].Ino>> = id
        /\ \A q \in GFiles : <<gfiles[q].Dev, gfiles[q].Ino>> = id => p <= q

\* C8: in the output of main.go a digest with at least two inodes has one
\* group, made of the smallest path of each of its inodes and nothing else;
\* a digest whose paths all share one inode has no group.
C8_OnePathPerInode ==
    (gpc = "output" /\ program = "main.go") =>
        \A c \in 1..NumContents :
            LET groups == {i \in 1..Len(results) : results[i].hash = Sum(SHA256Size, c)} IN
            IF Cardinality(Identities(c)) >= 2
            THEN /\ Cardinality(groups) = 1
                 /\ \A i \in groups :
                       /\ Len(results[i].paths) = Cardinality(Identities(c))
                       /\ {results[i].paths[j] : j \in 1..Len(results[i].paths)}
                             = {Representative(id) : id \in Identities(c)}
            ELSE groups = {}

\* A and B are one inode, C is another inode of the same content: one pair
C8_Witness ==
    /\ gpc = "output" /\ program = "main.go"
    /\ \E a, b, c \in GFiles :
          /\ a < b /\ c \notin {a, b}
          /\ KeyOf(gfiles[a]) = KeyOf(gfiles[b])
          /\ gfiles[c].content = gfiles[a].content
          /\ KeyOf(gfiles[c]) # KeyOf(gfiles[a])
          /\ \E i \in 1..Len(results) :
                {results[i].paths[j] : j \in 1..Len(results[i].paths)} = {a, c}


(* ====================== internal/metadata: codecs ====================== *)
\* A byte string is a sequence of numbers 0..255.
SizeBit == 1
TimeBit == 2
MD5Bit == 4
SHA1Bit == 8
SHA256Bit == 16
NumBits == 5
AllBits == 2 ^ NumBits - 1
BitList == <<SizeBit, TimeBit, MD5Bit, SHA1Bit, SHA256Bit>>

\* Bits.Has, for a single bit x
Has(bits, x) == (bits \div x) % 2 = 1
\* Bits.HasAll
HasAll(bits, x) == \A i \in 1..NumBits : Has(x, BitList[i]) => Has(bits, BitList[i])
\* bits |= x, for a single bit x
SetBit(bits, x) == IF Has(bits, x) THEN bits ELSE bits + x

kSplit == 44
kCut == 58
kSize == <<115, 105, 122, 101>>
kModTime == <<109, 111, 100, 84, 105, 109, 101>>
kMD5 == <<109, 100, 53>>
kSHA1 == <<115, 104, 97, 49>>
kSHA256 == <<115, 104, 97, 50, 53, 54>>

RECURSIVE FormatUint(_)
FormatUint(n) ==
    IF n < 10 THEN <<48 + n>> ELSE FormatUint(n \div 10) \o <<48 + (n % 10)>>

\* strconv.AppendInt(out, value, 10)
appendInt(out, value) ==
    out \o (IF value < 0 THEN <<45>> \o FormatUint(-value) ELSE FormatUint(value))

RECURSIVE ParseUint(_, _)
ParseUint(s, acc) ==
    IF s = <<>> THEN acc ELSE ParseUint(Tail(s), acc * 10 + (Head(s) - 48))

\* strconv.ParseInt(s, 10, 64): an optional sign and at least one digit
ParseInt(s) ==
    LET signed == s # <<>> /\ Head(s) \in {43, 45}
        digits == IF signed THEN Tail(s) ELSE s
    IN IF digits = <<>> \/ \E i \in 1..Len(digits) : digits[i] < 48 \/ digits[i] > 57
       THEN [ok |-> FALSE, val |-> 0]
       ELSE [ok |-> TRUE,
             val |-> IF signed /\ Head(s) = 45 THEN -ParseUint(digits, 0)
                     ELSE ParseUint(digits, 0)]

RECURSIVE BigEndianUint64(_, _)
BigEndianUint64(s, acc) ==
    IF s = <<>> THEN acc ELSE BigEndianUint64(Tail(s), acc * 256 + Head(s))

decodeInt(input) ==
    IF ParseInt(input).ok THEN ParseInt(input)
    ELSE IF Len(input) = 8
    THEN [ok |-> TRUE,
          val |-> IF input[1] >= 128 THEN BigEndianUint64(input, 0) - 2 ^ 64
                  ELSE BigEndianUint64(input, 0)]
    ELSE [ok |-> FALSE, val |-> 0]

HexChar(n) == IF n < 10 THEN 48 + n ELSE 87 + n

RECURSIVE hexEncode(_)
hexEncode(raw) ==
    IF raw = <<>> THEN <<>>
    ELSE <<HexChar(Head(raw) \div 16), HexChar(Head(raw) % 16)>> \o hexEncode(Tail(raw))

reverseHexTable(c) ==
    IF c >= 48 /\ c <= 57 THEN c - 48
    ELSE IF c >= 97 /\ c <= 102 THEN c - 87
    ELSE IF c >= 65 /\ c <= 70 THEN c - 55
    ELSE 255

RECURSIVE hexDecodeFrom(_, _, _, _)
\* hex.Decode(dst, src) from its loop variables i and j: the bytes written,
\* their number, whether it returned an error, and whether the store
\* dst[i] was out of range
hexDecodeFrom(buf, text, i, j) ==
    IF j < Len(text)
    THEN IF reverseHexTable(text[j]) > 15 \/ reverseHexTable(text[j + 1]) > 15
         THEN [out |-> buf, n |-> i, err |-> TRUE, panic |-> FALSE]
         ELSE IF i >= Len(buf)
         THEN [out |-> buf, n |-> i, err |-> FALSE, panic |-> TRUE]
         ELSE hexDecodeFrom(
                  [buf EXCEPT ![i + 1] = reverseHexTable(text[j]) * 16 + reverseHexTable(text[j + 1])],
                  text, i + 1, j + 2)
    ELSE [out |-> buf, n |-> i, err |-> (Len(text) % 2 = 1), panic |-> FALSE]

hexDecode(buf, text) == hexDecodeFrom(buf, text, 0, 1)

\* the alphabets of base64.StdEncoding (url = FALSE) and base64.URLEncoding
B64Char(url, v) ==
    IF v < 26 THEN 65 + v
    ELSE IF v < 52 THEN 71 + v
    ELSE IF v < 62 THEN v - 4
    ELSE IF v = 62 THEN (IF url THEN 45 ELSE 43)
    ELSE (IF url THEN 95 ELSE 47)

decodeMap(url, c) ==
    IF c >= 65 /\ c <= 90 THEN c - 65
    ELSE IF c >= 97 /\ c <= 122 THEN c - 71
    ELSE IF c >= 48 /\ c <= 57 THEN c + 4
    ELSE IF c = (IF url THEN 45 ELSE 43) THEN 62
    ELSE IF c = (IF url THEN 95 ELSE 47) THEN 63
    ELSE 255

RECURSIVE b64Encode(_)
\* base64.StdEncoding.Encode
b64Encode(raw) ==
    IF raw = <<>> THEN <<>>
    ELSE IF Len(raw) = 1
    THEN <<B64Char(FALSE, raw[1] \div 4), B64Char(FALSE, (raw[1] % 4) * 16), 61, 61>>
    ELSE IF Len(raw) = 2
    THEN <<B64Char(FALSE, raw[1] \div 4),
           B64Char(FALSE, (raw[1] % 4) * 16 + raw[2] \div 16),
           B64Char(FALSE, (raw[2] % 16) * 4), 61>>
    ELSE <<B64Char(FALSE, raw[1] \div 4),
           B64Char(FALSE, (raw[1] % 4) * 16 + raw[2] \div 16),
           B64Char(FALSE, (raw[2] % 16) * 4 + raw[3] \div 64),
           B64Char(FALSE, raw[3] % 64)>> \o b64Encode(SubSeq(raw, 4, Len(raw)))

RECURSIVE SkipNewlines(_, _)
SkipNewlines(text, si) ==
    IF si < Len(text) /\ text[si + 1] \in {10, 13} THEN SkipNewlines(text, si + 1) ELSE si

RECURSIVE decodeQuantum(_, _, _, _, _)
\* Encoding.decodeQuantum up to its stores: the position after the quantum,
\* the 6-bit values read (none at a clean end), err when it returns an error
\* before storing, late when it stores and then reports trailing garbage
decodeQuantum(url, text, si, j, dbuf) ==
    LET bad == [si |-> si, dbuf |-> <<>>, err |-> TRUE, late |-> FALSE]
        pad(s) == [si |-> s, dbuf |-> dbuf, err |-> FALSE, late |-> s < Len(text)]
    IN IF j = 4 THEN [si |-> si, dbuf |-> dbuf, err |-> FALSE, late |-> FALSE]
       ELSE IF si = Len(text)
       THEN IF j = 0 THEN [si |-> si, dbuf |-> <<>>, err |-> FALSE, late |-> FALSE] ELSE bad
       ELSE IF decodeMap(url, text[si + 1]) # 255
       THEN decodeQuantum(url, text, si + 1, j + 1, Append(dbuf, decodeMap(url, text[si + 1])))
       ELSE IF text[si + 1] \in {10, 13} THEN decodeQuantum(url, text, si + 1, j, dbuf)
       ELSE IF text[si + 1] # 61 \/ j < 2 THEN bad
       ELSE IF j = 2
       THEN LET s1 == SkipNewlines(text, si + 1) IN
            IF s1 = Len(text) THEN bad
            ELSE IF text[s1 + 1] # 61 THEN bad
            ELSE pad(SkipNewlines(text, s1 + 1))
       ELSE pad(SkipNewlines(text, si + 1))

\* the bytes of a quantum of dlen 6-bit values: dlen - 1 of them
QuantumBytes(dbuf) ==
    LET v(i) == IF i <= Len(dbuf) THEN dbuf[i] ELSE 0
        val == v(1) * 262144 + v(2) * 4096 + v(3) * 64 + v(4)
    IN SubSeq(<<val \div 65536, (val \div 256) % 256, val % 256>>, 1, Len(dbuf) - 1)

RECURSIVE b64DecodeFrom(_, _, _, _, _)
\* Encoding.Decode after a quantum q whose bytes are b: the stores into dst
\* and the rest of the loop; a store past the end of dst is out of range
b64Store(url, buf, text, n, q, b) ==
    IF n + Len(b) > Len(buf) THEN [out |-> buf, n |-> n, err |-> FALSE, panic |-> TRUE]
    ELSE IF q.late
    THEN [out |-> SubSeq(buf, 1, n) \o b \o SubSeq(buf, n + Len(b) + 1, Len(buf)),
          n |-> n + Len(b), err |-> TRUE, panic |-> FALSE]
    ELSE b64DecodeFrom(url, SubSeq(buf, 1, n) \o b \o SubSeq(buf, n + Len(b) + 1, Len(buf)),
                       text, q.si, n + Len(b))

\* Encoding.Decode after decodeQuantum returned q
b64Quantum(url, buf, text, n, q) ==
    IF q.err THEN [out |-> buf, n |-> n, err |-> TRUE, panic |-> FALSE]
    ELSE IF q.dbuf = <<>> THEN [out |-> buf, n |-> n, err |-> FALSE, panic |-> FALSE]
    ELSE b64Store(url, buf, text, n, q, QuantumBytes(q.dbuf))

\* Encoding.Decode(dst, src), quantum by quantum, from position si of src
\* with n bytes stored
b64DecodeFrom(url, buf, text, si, n) ==
    IF si >= Len(text) THEN [out |-> buf, n |-> n, err |-> FALSE, panic |-> FALSE]
    ELSE b64Quantum(url, buf, text, n, decodeQuantum(url, text, si, 0, <<>>))

b64Decode(url, buf, text) == b64DecodeFrom(url, buf, text, 0, 0)

hexEncodedLen(n) == n * 2
b64EncodedLen(n) == ((n + 2) \div 3) * 4

HashResult(okv, o, p) == [ok |-> okv, out |-> o, panic |-> p]

\* decodeHash after base64.URLEncoding.Decode returned u
AfterURL(u, output) ==
    IF u.panic THEN HashResult(FALSE, output, TRUE)
    ELSE IF u.n = Len(output) /\ ~u.err THEN HashResult(TRUE, u.out, FALSE)
    ELSE HashResult(FALSE, u.out, FALSE)

\* decodeHash after base64.StdEncoding.Decode returned s
AfterStd(s, output, input) ==
    IF s.panic THEN HashResult(FALSE, output, TRUE)
    ELSE IF s.n = Len(output) /\ ~s.err THEN HashResult(TRUE, s.out, FALSE)
    ELSE AfterURL(b64Decode(TRUE, s.out, input), output)

\* decodeHash after hex.Decode returned h (or was not called)
AfterHex(h, output, input) ==
    IF h.panic THEN HashResult(FALSE, output, TRUE)
    ELSE IF h.n = Len(output) /\ ~h.err THEN HashResult(TRUE, h.out, FALSE)
    ELSE IF Len(input) >= b64EncodedLen(Len(output))
    THEN AfterStd(b64Decode(FALSE, h.out, input), output, input)
    ELSE HashResult(FALSE, h.out, FALSE)

\* decodeHash(output, input): ok, the output array afterwards, and whether
\* a decoder stored past the end of output
decodeHash(output, input) ==
    IF Len(input) = Len(output) THEN HashResult(TRUE, input, FALSE)
    ELSE IF Len(input) >= hexEncodedLen(Len(output))
    THEN AfterHex(hexDecode(output, input), output, input)
    ELSE AfterHex([out |-> output, n |-> 0, err |-> TRUE, panic |-> FALSE], output, input)

\* appendHash(out, wantHex, raw)
appendHash(out, wantHex, raw) ==
    out \o (IF wantHex THEN hexEncode(raw) ELSE b64Encode(raw))


(* ================= internal/metadata: Metadata and xattr =============== *)
Zero(n) == [i \in 1..n |-> 0]

\* var meta metadata.Metadata
ZeroMetadata ==
    [Bits |-> 0, Size |-> 0, Time |-> 0,
     MD5 |-> Zero(MD5Size), SHA1 |-> Zero(SHA1Size), SHA256 |-> Zero(SHA256Size)]

\* Check with Bits.Has, which is true when either bit is set
Check_HasEither(meta, size, modTime) ==
    IF Has(meta.Bits, SizeBit) \/ Has(meta.Bits, TimeBit)
    THEN IF size = meta.Size /\ modTime = meta.Time THEN TRUE ELSE FALSE
    ELSE FALSE

\* Metadata.Check
Check(meta, size, modTime) ==
    IF HasAll(meta.Bits, SizeBit + TimeBit)
    THEN IF size = meta.Size /\ modTime = meta.Time THEN TRUE ELSE FALSE
    ELSE FALSE

\* metadata.DefaultNames()
DefaultNames ==
    [Stamp |-> "user.dedupe.stamp", Size |-> "user.size", Time |-> "user.mtime",
     MD5 |-> "user.md5sum", SHA1 |-> "user.sha1sum", SHA256 |-> "user.sha256sum"]

\* gNames after main: gNames.Stamp = flagNS + "stamp"
gNames(ns) == [DefaultNames EXCEPT !.Stamp = ns \o "stamp"]

\* the name of the exclude override of Rules.Exclude
ExcludeName(ns) == ns \o "exclude"

\* the value of an attribute the file does not have (ENOATTR / ENODATA)
NoAttr == <<-1>>

\* The execution of ScanFile on one file is threaded through a record:
\*   meta    the Metadata being filled
\*   attrs   the file's extended attributes, name -> value or NoAttr
\*   log     the messages logged at level Info and above
\*   panic   a run-time panic has ended the program
\*   reads   the names passed to xattr.FGet
\*   writes  the names passed to xattr.FSet
\*   unsaved the names whose MaybeFSet ended without the value being stored
\* A fault is what fails during it: [op, name] with op "none", "fget"
\* (xattr.FGet of the name fails with an I/O error), "fset" (xattr.FSet of
\* the name fails), "nosup" (every FGet and FSet fails: no extended
\* attributes), "seek", "read", "size" (the three failures of Compute).
FGetErr(fault, name) == fault.op = "nosup" \/ (fault.op = "fget" /\ fault.name = name)
FSetErr(fault, name) == fault.op = "nosup" \/ (fault.op = "fset" /\ fault.name = name)

Logged(w, msg) == [w EXCEPT !.log = @ \cup {msg}]

\* MaybeFGet: the world afterwards, the value and ok
MaybeFGet(w, fault, name) ==
    LET w1 == [w EXCEPT !.reads = @ \cup {name}] IN
    IF FGetErr(fault, name)
    THEN [w |-> Logged(w1, "fgetxattr failed"), raw |-> <<>>, ok |-> FALSE]
    ELSE IF w.attrs[name] = NoAttr THEN [w |-> w1, raw |-> <<>>, ok |-> FALSE]
    ELSE [w |-> w1, raw |-> w.attrs[name], ok |-> TRUE]

\* MaybeFSet that stores without comparing with the existing value
MaybeFSet_AlwaysWrite(w, fault, name, value) ==
    LET w1 == [w EXCEPT !.reads = @ \cup {name}]
        w2 == [w1 EXCEPT !.writes = @ \cup {name}]
    IN IF FGetErr(fault, name) THEN [w1 EXCEPT !.unsaved = @ \cup {name}]
       ELSE IF FSetErr(fault, name)
       THEN Logged([w2 EXCEPT !.unsaved = @ \cup {name}], "fsetxattr failed")
       ELSE [w2 EXCEPT !.attrs[name] = value]

\* MaybeFSet
MaybeFSet(w, fault, name, value) ==
    LET w1 == [w EXCEPT !.reads = @ \cup {name}]
        w2 == [w1 EXCEPT !.writes = @ \cup {name}]
    IN IF FGetErr(fault, name) THEN [w1 EXCEPT !.unsaved = @ \cup {name}]
       ELSE IF w.attrs[name] = value THEN w1
       ELSE IF FSetErr(fault, name)
       THEN Logged([w2 EXCEPT !.unsaved = @ \cup {name}], "fsetxattr failed")
       ELSE [w2 EXCEPT !.attrs[name] = value]

decodeSize(w, raw) ==
    IF decodeInt(raw).ok
    THEN [w EXCEPT !.meta.Size = decodeInt(raw).val, !.meta.Bits = SetBit(@, SizeBit)]
    ELSE Logged(w, "failed to decode size")

decodeModTime(w, raw) ==
    IF decodeInt(raw).ok
    THEN [w EXCEPT !.meta.Time = decodeInt(raw).val, !.meta.Bits = SetBit(@, TimeBit)]
    ELSE Logged(w, "failed to decode last modified time")

\* the end of decodeMD5, decodeSHA1 and decodeSHA256, d being what
\* decodeHash returned
Decoded(w, d, field, bit, msg) ==
    IF d.panic THEN [w EXCEPT !.panic = TRUE]
    ELSE IF d.ok THEN [w EXCEPT !.meta[field] = d.out, !.meta.Bits = SetBit(@, bit)]
    ELSE Logged(w, msg)

decodeMD5(w, raw) ==
    Decoded(w, decodeHash(Zero(MD5Size), raw), "MD5", MD5Bit, "failed to decode MD5 hash")

decodeSHA1(w, raw) ==
    Decoded(w, decodeHash(Zero(SHA1Size), raw), "SHA1", SHA1Bit, "failed to decode SHA1 hash")

decodeSHA256(w, raw) ==
    Decoded(w, decodeHash(Zero(SHA256Size), raw), "SHA256", SHA256Bit,
            "failed to decode SHA256 hash")

RECURSIVE IndexByte(_, _, _)
\* the first position at or after i of byte c in s, or 0
IndexByte(s, c, i) ==
    IF i > Len(s) THEN 0 ELSE IF s[i] = c THEN i ELSE IndexByte(s, c, i + 1)

RECURSIVE Split(_)
\* bytes.Split(input, kSplit)
Split(s) ==
    IF IndexByte(s, kSplit, 1) = 0 THEN <<s>>
    ELSE <<SubSeq(s, 1, IndexByte(s, kSplit, 1) - 1)>>
             \o Split(SubSeq(s, IndexByte(s, kSplit, 1) + 1, Len(s)))

\* bytes.Cut(raw, kCut)
Cut(s) ==
    IF IndexByte(s, kCut, 1) = 0 THEN [key |-> s, value |-> <<>>, found |-> FALSE]
    ELSE [key |-> SubSeq(s, 1, IndexByte(s, kCut, 1) - 1),
          value |-> SubSeq(s, IndexByte(s, kCut, 1) + 1, Len(s)),
          found |-> TRUE]

ToLower(c) == IF c >= 65 /\ c <= 90 THEN c + 32 ELSE c

\* bytes.EqualFold, on ASCII
EqualFold(a, b) == Len(a) = Len(b) /\ \A i \in 1..Len(a) : ToLower(a[i]) = ToLower(b[i])

\* the switch of Metadata.Decode on one piece, c being what bytes.Cut returned
DecodePiece(w, c) ==
    IF c.found /\ EqualFold(c.key, kSize) THEN decodeSize(w, c.value)
    ELSE IF c.found /\ EqualFold(c.key, kModTime) THEN decodeModTime(w, c.value)
    ELSE IF c.found /\ EqualFold(c.key, kMD5) THEN decodeMD5(w, c.value)
    ELSE IF c.found /\ EqualFold(c.key, kSHA1) THEN decodeSHA1(w, c.value)
    ELSE IF c.found /\ EqualFold(c.key, kSHA256) THEN decodeSHA256(w, c.value)
    ELSE w

RECURSIVE DecodeFrom(_, _)
\* the loop of Metadata.Decode over the pieces
DecodeFrom(w, pieces) ==
    IF pieces = <<>> \/ w.panic THEN w
    ELSE DecodeFrom(DecodePiece(w, Cut(Head(pieces))), Tail(pieces))

\* Metadata.Decode
Decode(w, input) == DecodeFrom(w, Split(input))

\* Load: meta.Decode(raw) if MaybeFGet, which returned g, found the stamp
LoadStamp(g) == IF g.ok THEN Decode(g.w, g.raw) ELSE g.w

\* Load: the per-field fallbacks, g being what MaybeFGet returned
LoadSize(g) == IF g.ok THEN decodeSize(g.w, g.raw) ELSE g.w
LoadTime(g) == IF g.ok THEN decodeModTime(g.w, g.raw) ELSE g.w
LoadMD5(g) == IF g.ok THEN decodeMD5(g.w, g.raw) ELSE g.w
LoadSHA1(g) == IF g.ok THEN decodeSHA1(g.w, g.raw) ELSE g.w
LoadSHA256(g) == IF g.ok THEN decodeSHA256(g.w, g.raw) ELSE g.w

Load5(w, fault, names) ==
    IF w.panic \/ Has(w.meta.Bits, SHA256Bit) THEN w
    ELSE LoadSHA256(MaybeFGet(w, fault, names.SHA256))

Load4(w, fault, names) ==
    Load5(IF w.panic \/ Has(w.meta.Bits, SHA1Bit) THEN w
          ELSE LoadSHA1(MaybeFGet(w, fault, names.SHA1)), fault, names)

Load3(w, fault, names) ==
    Load4(IF w.panic \/ Has(w.meta.Bits, MD5Bit) THEN w
          ELSE LoadMD5(MaybeFGet(w, fault, names.MD5)), fault, names)

Load2(w, fault, names) ==
    Load3(IF w.panic \/ Has(w.meta.Bits, TimeBit) THEN w
          ELSE LoadTime(MaybeFGet(w, fault, names.Time)), fault, names)

Load1(w, fault, names) ==
    Load2(IF w.panic \/ Has(w.meta.Bits, SizeBit) THEN w
          ELSE LoadSize(MaybeFGet(w, fault, names.Size)), fault, names)

\* Metadata.Load: the world afterwards; its result is HasAll(meta.Bits, AllBits)
Load(w, fault, names) == Load1(LoadStamp(MaybeFGet(w, fault, names.Stamp)), fault, names)

\* Compute with meta.Reset() called before the file is read
Compute_ResetFirst(w, fault, size, modTime, cont) ==
    IF fault.op = "seek"
    THEN [w |-> Logged([w EXCEPT !.meta = ZeroMetadata], "failed to rewind file to start"),
          ok |-> FALSE]
    ELSE IF fault.op = "read"
    THEN [w |-> Logged([w EXCEPT !.meta = ZeroMetadata], "I/O error while reading file"),
          ok |-> FALSE]
    ELSE IF fault.op = "size"
    THEN [w |-> Logged([w EXCEPT !.meta = ZeroMetadata],
                       "file size changed while computing hash"),
          ok |-> FALSE]
    ELSE [w |-> [w EXCEPT !.meta = [Bits |-> AllBits, Size |-> size, Time |-> modTime,
                                    MD5 |-> Sum(MD5Size, cont),
                                    SHA1 |-> Sum(SHA1Size, cont),
                                    SHA256 |-> Sum(SHA256Size, cont)]],
          ok |-> TRUE]

\* Metadata.Compute on a file of the given content: the world afterwards and
\* the result
Compute(w, fault, size, modTime, cont) ==
    IF fault.op = "seek"
    THEN [w |-> Logged(w, "failed to rewind file to start"), ok |-> FALSE]
    ELSE IF fault.op = "read"
    THEN [w |-> Logged(w, "I/O error while reading file"), ok |-> FALSE]
    ELSE IF fault.op = "size"
    THEN [w |-> Logged(w, "file size changed while computing hash"), ok |-> FALSE]
    ELSE [w |-> [w EXCEPT !.meta = [Bits |-> AllBits, Size |-> size, Time |-> modTime,
                                    MD5 |-> Sum(MD5Size, cont),
                                    SHA1 |-> Sum(SHA1Size, cont),
                                    SHA256 |-> Sum(SHA256Size, cont)]],
          ok |-> TRUE]

\* Metadata.Append(out), the combined stamp
MetaAppend(meta) ==
    appendHash(
      appendHash(
        appendHash(
          appendInt(
            appendInt(kSize \o <<kCut>>, meta.Size) \o <<kSplit>> \o kModTime \o <<kCut>>,
            meta.Time) \o <<kSplit>> \o kMD5 \o <<kCut>>,
          FALSE, meta.MD5) \o <<kSplit>> \o kSHA1 \o <<kCut>>,
        FALSE, meta.SHA1) \o <<kSplit>> \o kSHA256 \o <<kCut>>,
      FALSE, meta.SHA256)

\* the six calls of Metadata.Save
SaveStamp(w, fault, names) == MaybeFSet(w, fault, names.Stamp, MetaAppend(w.meta))
SaveSize(w, fault, names) == MaybeFSet(w, fault, names.Size, appendInt(<<>>, w.meta.Size))
SaveTime(w, fault, names) == MaybeFSet(w, fault, names.Time, appendInt(<<>>, w.meta.Time))
SaveMD5(w, fault, names) == MaybeFSet(w, fault, names.MD5, appendHash(<<>>, TRUE, w.meta.MD5))
SaveSHA1(w, fault, names) == MaybeFSet(w, fault, names.SHA1, appendHash(<<>>, TRUE, w.meta.SHA1))
SaveSHA256(w, fault, names) ==
    MaybeFSet(w, fault, names.SHA256, appendHash(<<>>, TRUE, w.meta.SHA256))

\* Metadata.Save
Save(w, fault, names) ==
    SaveSHA256(SaveSHA1(SaveMD5(SaveTime(SaveSize(SaveStamp(w, fault, names), fault, names),
                                         fault, names), fault, names), fault, names),
               fault, names)

(* ============== find-duplicate-files (part_004): ScanFile ============== *)
\* the rule loop of Rules.Exclude with the last matching rule deciding
RECURSIVE RulesExcludeFrom_LastWins(_, _, _)
RulesExcludeFrom_LastWins(list, path, i) ==
    IF i > Len(list) THEN FALSE
    ELSE IF path \in list[i].Pattern
              /\ \A j \in (i + 1)..Len(list) : path \notin list[j].Pattern
    THEN list[i].Exclude
    ELSE RulesExcludeFrom_LastWins(list, path, i + 1)

\* A rule of the scan is [Pattern, Exclude]; Pattern is the set of paths the
\* compiled glob matches.
RECURSIVE RulesExcludeFrom(_, _, _)
RulesExcludeFrom(list, path, i) ==
    IF i > Len(list) THEN FALSE
    ELSE IF path \in list[i].Pattern THEN list[i].Exclude
    ELSE RulesExcludeFrom(list, path, i + 1)

\* Rules.Exclude that compares the attribute without regard to case: Y, YES,
\* True and TRUE count as yes
Exclude_FoldCase(w, fault, ns, path, list) ==
    LET g == MaybeFGet(w, fault, ExcludeName(ns)) IN
    IF g.ok
    THEN [w |-> g.w,
          excluded |-> \/ Len(g.raw) <= 0
                       \/ g.raw = <<49>>
                       \/ g.raw \in {<<121>>, <<89>>}
                       \/ g.raw \in {<<121, 101, 115>>, <<89, 69, 83>>}
                       \/ g.raw \in {<<116>>, <<84>>}
                       \/ g.raw \in {<<116, 114, 117, 101>>, <<84, 114, 117, 101>>,
                                     <<84, 82, 85, 69>>}]
    ELSE [w |-> g.w, excluded |-> RulesExcludeFrom(list, path, 1)]

\* Rules.Exclude
Exclude(w, fault, ns, path, list) ==
    LET g == MaybeFGet(w, fault, ExcludeName(ns)) IN
    IF g.ok
    THEN [w |-> g.w,
          excluded |-> \/ Len(g.raw) <= 0
                       \/ g.raw = <<49>>
                       \/ g.raw = <<121>>
                       \/ g.raw = <<121, 101, 115>>
                       \/ g.raw = <<116>>
                       \/ g.raw = <<116, 114, 117, 101>>]
    ELSE [w |-> g.w, excluded |-> RulesExcludeFrom(list, path, 1)]

\* needRescan that trusts the cached size and time without Check
NeedRescan_NoCheck(rescan, hasAll, check) ==
    IF ~rescan /\ ~hasAll THEN TRUE ELSE rescan

\* ScanFile: the three assignments of needRescan
NeedRescan(rescan, hasAll, check) ==
    LET n1 == rescan
        n2 == IF ~n1 /\ ~hasAll THEN TRUE ELSE n1
        n3 == IF ~n2 /\ ~check THEN TRUE ELSE n2
    IN n3

NewWorld(attrs) ==
    [meta |-> ZeroMetadata, attrs |-> attrs, log |-> {}, panic |-> FALSE,
     reads |-> {}, writes |-> {}, unsaved |-> {}]

\* what ScanFile did
\*   admitted  the file passed the size and exclusion tests
\*   loaded    the Metadata as Load left it
\*   computed  Compute was called; computeOK it returned true
\*   saved     Save was called
\*   grouped   the path was appended to seen[w.meta.SHA256]
Scanned(w, admitted, loaded, computed, computeOK, saved) ==
    [w |-> w, admitted |-> admitted, loaded |-> loaded, computed |-> computed,
     computeOK |-> computeOK, saved |-> saved, grouped |-> saved]

\* ScanFile from "if !hasAll { return }", c being what Compute returned
AfterCompute(c, loaded, needRescan, fault, ns) ==
    IF ~c.ok THEN Scanned(c.w, TRUE, loaded, needRescan, FALSE, FALSE)
    ELSE Scanned(Save(c.w, fault, gNames(ns)), TRUE, loaded, needRescan, needRescan, TRUE)

\* ScanFile from "if needRescan", l being the world after Load
AfterNeedRescan(l, needRescan, it, cont, fault, ns) ==
    AfterCompute(IF needRescan THEN Compute(l, fault, it.Size, it.Time, cont)
                 ELSE [w |-> l, ok |-> HasAll(l.meta.Bits, AllBits)],
                 l.meta, needRescan, fault, ns)

\* ScanFile after Load, l being the world after it
AfterLoad(l, it, cont, fault, rescan, ns) ==
    IF l.panic THEN Scanned(l, TRUE, l.meta, FALSE, FALSE, FALSE)
    ELSE AfterNeedRescan(l, NeedRescan(rescan, HasAll(l.meta.Bits, AllBits),
                                       Check(l.meta, it.Size, it.Time)),
                         it, cont, fault, ns)

\* ScanFile after flagRules.Exclude(it), which returned e
AfterExclude(e, it, cont, fault, rescan, ns) ==
    IF e.excluded THEN Scanned(e.w, FALSE, ZeroMetadata, FALSE, FALSE, FALSE)
    ELSE AfterLoad(Load(e.w, fault, gNames(ns)), it, cont, fault, rescan, ns)

\* ScanFile without the test of the size
ScanFile_AnySize(w, it, cont, fault, rescan, minSize, ns, list) ==
    AfterExclude(Exclude(w, fault, ns, it.Path, list), it, cont, fault, rescan, ns)

\* ScanFile on an open item it = [Path, Size, Time] whose file has the given
\* content: the world afterwards and what was done
ScanFile(w, it, cont, fault, rescan, minSize, ns, list) ==
    IF it.Size < minSize THEN Scanned(w, FALSE, ZeroMetadata, FALSE, FALSE, FALSE)
    ELSE AfterExclude(Exclude(w, fault, ns, it.Path, list), it, cont, fault, rescan, ns)

(* ====== find-duplicate-files/metadata.go: the codec of main.go ========= *)
IsDigit(c) == c >= 48 /\ c <= 57
IsB64Letter(url, c) ==
    \/ IsDigit(c) \/ (c >= 65 /\ c <= 90) \/ (c >= 97 /\ c <= 122)
    \/ c \in (IF url THEN {95, 45} ELSE {43, 47})

\* reInt.Match: ^(?:0|[1-9][0-9]+)$
reInt(s) ==
    \/ s = <<48>>
    \/ /\ Len(s) >= 2 /\ s[1] >= 49 /\ s[1] <= 57
       /\ \A i \in 2..Len(s) : IsDigit(s[i])

\* reHex.Match: ^([0-9A-FA-f][0-9A-Fa-f])*$
reHex(s) ==
    /\ Len(s) % 2 = 0
    /\ \A i \in 1..Len(s) :
          IF i % 2 = 1 THEN IsDigit(s[i]) \/ (s[i] >= 65 /\ s[i] <= 102)
          ELSE IsDigit(s[i]) \/ (s[i] >= 65 /\ s[i] <= 70) \/ (s[i] >= 97 /\ s[i] <= 102)

\* reB64Std.Match (url = FALSE) and reB64URL.Match: words of four letters,
\* the last one possibly ending in = or ==
reB64(url, s) ==
    /\ Len(s) % 4 = 0
    /\ \A i \in 1..Len(s) :
          \/ IsB64Letter(url, s[i])
          \/ s[i] = 61 /\ i = Len(s)
          \/ s[i] = 61 /\ i = Len(s) - 1 /\ s[Len(s)] = 61

\* DecodeInt(output, input): ok and the value stored
DecodeInt(input) ==
    IF reInt(input) /\ ParseInt(input).ok THEN ParseInt(input)
    ELSE IF Len(input) = 8
    THEN [ok |-> TRUE,
          val |-> IF input[1] >= 128 THEN BigEndianUint64(input, 0) - 2 ^ 64
                  ELSE BigEndianUint64(input, 0)]
    ELSE [ok |-> FALSE, val |-> 0]

\* EncodeInt(tmp, value)
EncodeInt(value) == appendInt(<<>>, value)

\* EncodeHash(tmp, raw)
EncodeHash(raw) == b64Encode(raw)

\* DecodeHash after base64.URLEncoding.Decode returned u (or was not called)
DecodeHashURL(u, output) ==
    IF u.panic THEN HashResult(FALSE, output, TRUE)
    ELSE IF u.n = Len(output) /\ ~u.err THEN HashResult(TRUE, u.out, FALSE)
    ELSE HashResult(FALSE, u.out, FALSE)

\* DecodeHash after base64.StdEncoding.Decode returned s (or was not called)
DecodeHashStd(s, output, input) ==
    IF s.panic THEN HashResult(FALSE, output, TRUE)
    ELSE IF s.n = Len(output) /\ ~s.err THEN HashResult(TRUE, s.out, FALSE)
    ELSE IF reB64(TRUE, input) THEN DecodeHashURL(b64Decode(TRUE, s.out, input), output)
    ELSE HashResult(FALSE, s.out, FALSE)

\* DecodeHash after hex.Decode returned h (or was not called)
DecodeHashHex(h, output, input) ==
    IF h.panic THEN HashResult(FALSE, output, TRUE)
    ELSE IF h.n = Len(output) /\ ~h.err THEN HashResult(TRUE, h.out, FALSE)
    ELSE IF Len(input) < b64EncodedLen(Len(output)) THEN HashResult(FALSE, h.out, FALSE)
    ELSE IF reB64(FALSE, input)
    THEN DecodeHashStd(b64Decode(FALSE, h.out, input), output, input)
    ELSE DecodeHashStd([out |-> h.out, n |-> 0, err |-> TRUE, panic |-> FALSE], output, input)

\* DecodeHash(output, input) of main.go
DecodeHash(output, input) ==
    IF Len(input) = Len(output) THEN HashResult(TRUE, input, FALSE)
    ELSE IF Len(input) >= hexEncodedLen(Len(output)) /\ reHex(input)
    THEN DecodeHashHex(hexDecode(output, input), output, input)
    ELSE DecodeHashHex([out |-> output, n |-> 0, err |-> TRUE, panic |-> FALSE],
                       output, input)

\* the Metadata of main.go, and Decode's five flags
ZeroMD ==
    [Size |-> 0, ModTime |-> 0,
     MD5 |-> Zero(MD5Size), SHA1 |-> Zero(SHA1Size), SHA256 |-> Zero(SHA256Size),
     has |-> {}, panic |-> FALSE]

\* one case of Decode's switch that calls DecodeInt, d being what it returned
StoreInt(md, d, field) ==
    IF d.ok THEN [md EXCEPT ![field] = d.val, !.has = @ \cup {field}] ELSE md

\* one case of Decode's switch that calls DecodeHash, d being what it returned
StoreHash(md, d, field) ==
    IF d.panic THEN [md EXCEPT !.panic = TRUE]
    ELSE IF d.ok THEN [md EXCEPT ![field] = d.out, !.has = @ \cup {field}]
    ELSE [md EXCEPT ![field] = d.out]

\* the switch of main.go's Metadata.Decode on one piece
DecodeStampPiece(md, c) ==
    IF c.found /\ EqualFold(c.key, kSize) THEN StoreInt(md, DecodeInt(c.value), "Size")
    ELSE IF c.found /\ EqualFold(c.key, kModTime)
    THEN StoreInt(md, DecodeInt(c.value), "ModTime")
    ELSE IF c.found /\ EqualFold(c.key, kMD5)
    THEN StoreHash(md, DecodeHash(md.MD5, c.value), "MD5")
    ELSE IF c.found /\ EqualFold(c.key, kSHA1)
    THEN StoreHash(md, DecodeHash(md.SHA1, c.value), "SHA1")
    ELSE IF c.found /\ EqualFold(c.key, kSHA256)
    THEN StoreHash(md, DecodeHash(md.SHA256, c.value), "SHA256")
    ELSE md

RECURSIVE DecodeStampFrom(_, _)
DecodeStampFrom(md, pieces) ==
    IF pieces = <<>> \/ md.panic THEN md
    ELSE DecodeStampFrom(DecodeStampPiece(md, Cut(Head(pieces))), Tail(pieces))

\* Metadata.Decode of main.go: the Metadata afterwards; ok is that has holds
\* the five fields
DecodeStamp(input) == DecodeStampFrom(ZeroMD, Split(input))

\* Metadata.Encode of main.go
Encode(md) ==
    kSize \o <<kCut>> \o EncodeInt(md.Size) \o <<kSplit>>
        \o kModTime \o <<kCut>> \o EncodeInt(md.ModTime) \o <<kSplit>>
        \o kMD5 \o <<kCut>> \o EncodeHash(md.MD5) \o <<kSplit>>
        \o kSHA1 \o <<kCut>> \o EncodeHash(md.SHA1) \o <<kSplit>>
        \o kSHA256 \o <<kCut>> \o EncodeHash(md.SHA256)

(* ---- the combined stamp, encoded and decoded back (SpecStamp) ---- *)
\* sizes and times: zero, one digit, two digits, eight digits, a time of
\* today, the largest value of the model's integers, a negative value
StampInts == {0, 5, 10, 12345678, 1700000000, 2147483647, -1}

\* digests: of three contents, all zero bytes, all 255
StampDigestSets ==
    {[MD5 |-> Sum(MD5Size, c), SHA1 |-> Sum(SHA1Size, c), SHA256 |-> Sum(SHA256Size, c)] :
        c \in 1..3}
        \cup {[MD5 |-> Zero(MD5Size), SHA1 |-> Zero(SHA1Size), SHA256 |-> Zero(SHA256Size)],
              [MD5 |-> [i \in 1..MD5Size |-> 255], SHA1 |-> [i \in 1..SHA1Size |-> 255],
               SHA256 |-> [i \in 1..SHA256Size |-> 255]]}

InitStamp ==
    /\ pin \in {[impl |-> i, Size |-> s, Time |-> t,
                 MD5 |-> h.MD5, SHA1 |-> h.SHA1, SHA256 |-> h.SHA256] :
                   i \in {"internal/metadata", "main.go"}, s \in StampInts,
                   t \in StampInts, h \in StampDigestSets}
    /\ pout = NotApplied
    /\ gc = ZeroCompiler
    /\ IdlePrograms

\* internal/metadata: meta.Decode(m.Append(nil)) on an empty Metadata
AppendDecode ==
    /\ UNCHANGED notPure
    /\ ~pout.done /\ pin.impl = "internal/metadata"
    /\ \E w \in {Decode(NewWorld(<<>>),
                        MetaAppend([Bits |-> AllBits, Size |-> pin.Size, Time |-> pin.Time,
                                    MD5 |-> pin.MD5, SHA1 |-> pin.SHA1,
                                    SHA256 |-> pin.SHA256]))} :
          pout' = [done |-> TRUE, ok |-> HasAll(w.meta.Bits, AllBits), panic |-> w.panic,
                   Size |-> w.meta.Size, Time |-> w.meta.Time, MD5 |-> w.meta.MD5,
                   SHA1 |-> w.meta.SHA1, SHA256 |-> w.meta.SHA256]
    /\ UNCHANGED <<pin, gc>>

\* main.go: md.Decode(m.Encode(nil))
EncodeDecode ==
    /\ UNCHANGED notPure
    /\ ~pout.done /\ pin.impl = "main.go"
    /\ \E md \in {DecodeStamp(Encode([Size |-> pin.Size, ModTime |-> pin.Time,
                                      MD5 |-> pin.MD5, SHA1 |-> pin.SHA1,
                                      SHA256 |-> pin.SHA256]))} :
          pout' = [done |-> TRUE,
                   ok |-> md.has = {"Size", "ModTime", "MD5", "SHA1", "SHA256"},
                   panic |-> md.panic,
                   Size |-> md.Size, Time |-> md.ModTime, MD5 |-> md.MD5,
                   SHA1 |-> md.SHA1, SHA256 |-> md.SHA256]
    /\ UNCHANGED <<pin, gc>>

NextStamp == AppendDecode \/ EncodeDecode

SpecStamp == InitStamp /\ [][NextStamp]_vars

\* the stamp decoded to the Metadata it was made from
RoundTrip ==
    /\ pout.ok /\ ~pout.panic
    /\ pout.Size = pin.Size /\ pout.Time = pin.Time
    /\ pout.MD5 = pin.MD5 /\ pout.SHA1 = pin.SHA1 /\ pout.SHA256 = pin.SHA256

\* C17: for every complete Metadata, decoding into an empty Metadata the
\* stamp made by encoding it reports success and gives the same Metadata
\* back, in internal/metadata (Append, Decode) and in main.go (Encode, Decode).
C17_StampRoundTrip == pout.done => RoundTrip

(* ---- Metadata.Check on its own (SpecCheck) ---- *)
\* cached records: every combination of the five bits, sizes and times that
\* agree and disagree with the snapshot, digests of two contents
CheckMetas ==
    {[Bits |-> b, Size |-> s, Time |-> t,
      MD5 |-> Sum(MD5Size, c), SHA1 |-> Sum(SHA1Size, c), SHA256 |-> Sum(SHA256Size, c)] :
        b \in 0..AllBits, s \in {0, 3}, t \in {0, 1700000000}, c \in {0, 1}}

InitCheck ==
    /\ pin \in {[meta |-> m, size |-> s, time |-> t] :
                   m \in CheckMetas, s \in {0, 3}, t \in {0, 1700000000}}
    /\ pout = NotApplied
    /\ gc = ZeroCompiler
    /\ IdlePrograms

\* meta.Check(it.Size, it.Time)
ApplyCheck ==
    /\ UNCHANGED notPure
    /\ ~pout.done
    /\ pout' = [done |-> TRUE, val |-> Check(pin.meta, pin.size, pin.time)]
    /\ UNCHANGED <<pin, gc>>

SpecCheck == InitCheck /\ [][ApplyCheck]_vars

\* C16: Check(size, time) is true exactly when the Size bit and the Time bit
\* are both set and size and time equal the cached Size and Time; the result
\* is the same whatever the three digest bits and the digests are.
C16_CheckIffBitsAndValuesMatch ==
    pout.done =>
        /\ pout.val = (/\ pin.meta.Bits % 2 = 1
                       /\ (pin.meta.Bits \div 2) % 2 = 1
                       /\ pin.size = pin.meta.Size
                       /\ pin.time = pin.meta.Time)
        /\ \A m \in CheckMetas :
              (/\ m.Bits % 4 = pin.meta.Bits % 4
               /\ m.Size = pin.meta.Size /\ m.Time = pin.meta.Time)
                  => Check(m, pin.size, pin.time) = pout.val

\* the values match and only one of the two bits is set
C16_Witness ==
    /\ pout.done /\ ~pout.val
    /\ pin.meta.Bits = SizeBit + SHA256Bit
    /\ pin.size = pin.meta.Size /\ pin.time = pin.meta.Time

(* ---- one file scanned by successive runs ---- *)
NSSet == {"user.dedupe.", "user.other."}
\* the size of a content: contents 1 and 2 have the same size
SizeOf(cont) == IF cont = 0 THEN 0 ELSE IF cont = 3 THEN 4 ELSE 3
\* the states of the file: as first written, rewritten in place with the
\* same size within the same second, and rewritten longer a minute later
CFiles ==
    {[content |-> 1, Time |-> 1700000000],
     [content |-> 2, Time |-> 1700000000],
     [content |-> 3, Time |-> 1700000060]}
CachePath == 1

AttrNames ==
    {DefaultNames.Size, DefaultNames.Time, DefaultNames.MD5, DefaultNames.SHA1,
     DefaultNames.SHA256}
        \cup {gNames(ns).Stamp : ns \in NSSet} \cup {ExcludeName(ns) : ns \in NSSet}

NoFault == [op |-> "none", name |-> ""]

\* what can fail during one ScanFile of a run with namespace ns
Faults(ns) ==
    {NoFault}
        \cup {[op |-> "fget", name |-> n] : n \in {gNames(ns).Stamp, ExcludeName(ns)}}
        \cup {[op |-> "fset", name |-> n] : n \in {gNames(ns).Stamp}}
        \cup {[op |-> o, name |-> ""] : o \in {"nosup", "seek", "read", "size"}}

\* the command lines of a run: the defaults with at most one flag given
FlagSets ==
    LET default == [Rescan |-> FALSE, MinSize |-> 1, NS |-> "user.dedupe.", Rules |-> <<>>]
    IN {default,
        [default EXCEPT !.Rescan = TRUE],
        [default EXCEPT !.MinSize = 4],
        [default EXCEPT !.NS = "user.other."],
        [default EXCEPT !.Rules = <<[Pattern |-> {CachePath}, Exclude |-> TRUE]>>],
        [default EXCEPT !.Rules = <<[Pattern |-> {CachePath}, Exclude |-> FALSE],
                                    [Pattern |-> {CachePath}, Exclude |-> TRUE]>>]}

EmptyAttrs == [n \in AttrNames |-> NoAttr]

\* the attributes an earlier run with the defaults left on a file f
SavedAttrs(f) ==
    Save(Compute(NewWorld(EmptyAttrs), NoFault, SizeOf(f.content), f.Time, f.content).w,
         NoFault, DefaultNames).attrs

\* attributes a file can have before the first run
InitAttrs ==
    LET f0 == [content |-> 1, Time |-> 1700000000]
        s0 == SavedAttrs(f0)
    IN {EmptyAttrs,
        s0,
        \* the per-field attributes only, the digests in base64
        [EmptyAttrs EXCEPT ![DefaultNames.Size] = s0[DefaultNames.Size],
                           ![DefaultNames.Time] = s0[DefaultNames.Time],
                           ![DefaultNames.MD5] = b64Encode(Sum(MD5Size, 1)),
                           ![DefaultNames.SHA1] = b64Encode(Sum(SHA1Size, 1)),
                           ![DefaultNames.SHA256] = b64Encode(Sum(SHA256Size, 1))],
        \* a stamp of size and time only, with keys in capitals
        [EmptyAttrs EXCEPT ![DefaultNames.Stamp] =
            appendInt(appendInt(<<83, 73, 90, 69, kCut>>, 3) \o <<kSplit>> \o kModTime \o <<kCut>>,
                      1700000000)],
        \* no stamp, and a SHA-1 in hexadecimal under the name of the MD5
        [s0 EXCEPT ![DefaultNames.Stamp] = NoAttr,
                   ![DefaultNames.MD5] = hexEncode(Sum(SHA1Size, 1))],
        \* the exclude override, set and unset
        [s0 EXCEPT ![ExcludeName("user.dedupe.")] = <<49>>],
        [s0 EXCEPT ![ExcludeName("user.dedupe.")] = <<110, 111>>]}

NoCache == [set |-> FALSE]

InitCache ==
    /\ flagXdev = FALSE /\ flagRescan = FALSE /\ flagMinSize = 1 /\ flagNS = "user.dedupe."
    /\ flagRules = <<>>
    /\ cattrs \in InitAttrs
    /\ cfile \in CFiles
    /\ last = [ran |-> FALSE]
    /\ cached = NoCache
    /\ cpc = "first"
    /\ seen = <<>> /\ results = <<>>
    /\ IdleReplace
    /\ IdleGroup
    /\ IdleTree
    /\ IdlePure

\* one run of the program over the file: flag.Parse, Open, ScanFile
CacheScan ==
    /\ UNCHANGED notCache
    /\ cpc \in {"first", "between", "touched"}
    /\ cpc' = IF cpc = "first" THEN "between" ELSE "end"
    /\ \E fl \in FlagSets : \E fault \in Faults(fl.NS) :
          LET it == [Path |-> CachePath, Size |-> SizeOf(cfile.content), Time |-> cfile.Time]
          IN \E r \in {ScanFile(NewWorld(cattrs), it, cfile.content, fault,
                                fl.Rescan, fl.MinSize, fl.NS, fl.Rules)} :
             /\ flagRescan' = fl.Rescan
             /\ flagMinSize' = fl.MinSize
             /\ flagNS' = fl.NS
             /\ flagRules' = fl.Rules
             /\ cattrs' = r.w.attrs
             /\ seen' = IF r.grouped THEN AddPath(<<>>, r.w.meta.SHA256, it.Path) ELSE <<>>
             /\ last' = [ran |-> TRUE, fault |-> fault, it |-> it, admitted |-> r.admitted,
                         loaded |-> r.loaded, computed |-> r.computed,
                         computeOK |-> r.computeOK, saved |-> r.saved,
                         grouped |-> r.grouped, hash |-> r.w.meta.SHA256,
                         meta |-> r.w.meta,
                         log |-> r.w.log, reads |-> r.w.reads, writes |-> r.w.writes,
                         unsaved |-> r.w.unsaved, panic |-> r.w.panic, after |-> cached]
             /\ cached' = IF r.computed
                          THEN IF r.computeOK /\ r.saved /\ r.w.unsaved = {}
                               THEN [set |-> TRUE, Size |-> it.Size, Time |-> it.Time,
                                     NS |-> fl.NS, hash |-> r.w.meta.SHA256]
                               ELSE NoCache
                          ELSE cached
    /\ UNCHANGED <<flagXdev, cfile>>

\* the file is modified between two runs
CacheTouch ==
    /\ UNCHANGED notCache
    /\ cpc = "between"
    /\ cpc' = "touched"
    /\ \E f \in CFiles \ {cfile} :
          /\ cfile' = f
          /\ cached' = IF SizeOf(f.content) = SizeOf(cfile.content) /\ f.Time = cfile.Time
                       THEN cached ELSE NoCache
    /\ UNCHANGED <<fvars, flagRules, seen, cattrs, last>>

NextCache == CacheScan \/ CacheTouch

SpecCache == InitCache /\ [][NextCache]_vars


(* ======================== claims on SpecCache ========================== *)
\* C5: ScanFile calls Compute for an admitted file exactly when flagRescan
\* is set, or Load left one of the five bits unset, or the loaded size or
\* time differs from the snapshot taken at open; otherwise the path is
\* grouped under the loaded SHA256, so a cached digest is only used with the
\* size and time of the snapshot.
C5_ComputeIffRescanOrStale ==
    (last.ran /\ last.admitted /\ ~last.panic) =>
        /\ last.computed <=>
              \/ flagRescan
              \/ last.loaded.Bits # AllBits
              \/ last.loaded.Size # last.it.Size
              \/ last.loaded.Time # last.it.Time
        /\ ~last.computed =>
              /\ last.grouped
              /\ last.hash = last.loaded.SHA256
              /\ seen = (last.loaded.SHA256 :> <<last.it.Path>>)
              /\ last.loaded.Size = last.it.Size
              /\ last.loaded.Time = last.it.Time

\* a complete record of another size and time is found, and the file is hashed
C5_Witness ==
    /\ last.ran /\ last.admitted /\ ~last.panic /\ ~flagRescan
    /\ last.loaded.Bits = AllBits
    /\ last.loaded.Time # last.it.Time
    /\ last.computed /\ last.grouped

\* C6 as stated: after a scan that computed and saved, a later scan without
\* flagRescan of the file with the same size and time calls no Compute,
\* writes no attribute and groups the file under the same digest.
C6_LaterScanUsesCache ==
    (/\ last.ran /\ last.after.set
     /\ ~flagRescan
     /\ last.it.Size = last.after.Size /\ last.it.Time = last.after.Time)
        => /\ ~last.computed
           /\ last.writes = {}
           /\ last.grouped
           /\ last.hash = last.after.hash

\* C6 amended: the same, for a later scan that runs with the same namespace,
\* admits the file, and in which no attribute read fails.
C6_LaterScanSameNamespaceUsesCache ==
    (/\ last.ran /\ last.after.set
     /\ ~flagRescan
     /\ last.it.Size = last.after.Size /\ last.it.Time = last.after.Time
     /\ flagNS = last.after.NS
     /\ last.admitted
     /\ last.fault.op \notin {"fget", "nosup"})
        => /\ ~last.computed
           /\ ~last.panic
           /\ last.writes = {}
           /\ last.unsaved = {}
           /\ last.grouped
           /\ last.hash = last.after.hash
           /\ seen = (last.after.hash :> <<last.it.Path>>)

\* the second run finds what the first one saved and groups the file
C6_Witness ==
    /\ cpc = "end" /\ last.after.set /\ ~flagRescan
    /\ last.it.Size = last.after.Size /\ last.it.Time = last.after.Time
    /\ flagNS = last.after.NS /\ last.admitted
    /\ last.fault.op = "none"
    /\ last.grouped /\ last.saved


\* C14: when Compute meets a read error, or reads a number of bytes other
\* than the expected size, it returns false and the Metadata is as Load left
\* it; ScanFile then puts the path in no group, calls no Save and writes no
\* attribute, and returns normally, so the run goes on.
C14_ComputeFailureSkipsFile ==
    (last.ran /\ last.computed /\ last.fault.op \in {"read", "size"}) =>
        /\ ~last.computeOK
        /\ last.meta = last.loaded
        /\ ~last.grouped /\ seen = <<>>
        /\ ~last.saved /\ last.writes = {}
        /\ ~last.panic
        /\ cpc \in {"between", "touched", "end"}

\* a stale record was loaded and the bytes read were not of the size expected
C14_Witness ==
    /\ last.ran /\ last.computed /\ last.fault.op = "size"
    /\ last.loaded.Bits = AllBits /\ last.loaded.Time # last.it.Time
    /\ ~last.grouped

\* C15: Metadata.Load is total: whatever the attribute reads return (missing,
\* unsupported, an I/O error, a value of any length and content) it returns
\* normally, and says true exactly when the five bits are set.
C15_LoadIsTotal ==
    (last.ran /\ last.admitted) =>
        /\ ~last.panic
        /\ (~last.computed /\ last.grouped) => last.loaded.Bits = AllBits

\* the step is one run of ScanFile
ScanFileRan == cpc' # cpc /\ cpc' \in {"between", "end"}

\* Rules.Exclude on the file as the run found it is true
Skipped(before, run) ==
    Exclude(NewWorld(before), run.fault, flagNS', run.it.Path, flagRules').excluded

\* what a skipped file looks like after the run
NoFurtherWork(run) ==
    /\ ~run.admitted
    /\ run.loaded = ZeroMetadata /\ run.meta = ZeroMetadata
    /\ ~run.computed /\ ~run.saved
    /\ run.writes = {} /\ run.unsaved = {}
    /\ run.reads \subseteq {ExcludeName(flagNS')}
    /\ ~run.grouped /\ seen' = <<>>
    /\ cattrs' = cattrs

\* C25: for a file whose size is below flagMinSize, or for which
\* Rules.Exclude is true, ScanFile calls neither Load nor Compute nor Save,
\* writes no attribute and adds the path to no group; below the minimum size
\* it does not read the exclude attribute either.
C25_SkippedFileUntouched ==
    [][ScanFileRan =>
          /\ (last'.it.Size < flagMinSize') => (NoFurtherWork(last') /\ last'.reads = {})
          /\ Skipped(cattrs, last') => NoFurtherWork(last')]_vars

\* a file that has cached digests was excluded by a rule
C25_Witness ==
    /\ last.ran /\ last.it.Size >= flagMinSize /\ flagRules # <<>>
    /\ ~last.admitted /\ ~last.grouped
    /\ cattrs[DefaultNames.SHA256] # NoAttr

\* a file below the minimum size was passed over
C25_WitnessSmall == last.ran /\ last.it.Size < flagMinSize /\ ~last.admitted

\* strings.HasPrefix on attribute names
NameHasPrefix(name, prefix) ==
    /\ Len(name) >= Len(prefix)
    /\ SubSeq(name, 1, Len(prefix)) = prefix

\* C27: every extended attribute the scanner reads or writes, the stamp, the
\* five per-field attributes and the exclude override, has a name that
\* begins with the namespace prefix flagNS.
C27_NamesUnderNamespace ==
    last.ran => \A n \in last.reads \cup last.writes : NameHasPrefix(n, flagNS)

(* =========== find-duplicate-files (part_004): Scan and ScanDir ========== *)
NumEntries == 2
MaxScanFail == 1

\* The tree: a root directory with NumEntries entries; an entry that is a
\* directory has one regular file in it.  A path is a number.
MissingPath == 0
RootPath == 1
Entries == 1..NumEntries
EntryPath(e) == 10 + e
SubPath(e) == 20 + e
TreePaths == {RootPath} \cup {EntryPath(e) : e \in Entries} \cup {SubPath(e) : e \in Entries}

\* what an entry is:
\*   file      a regular file without attributes
\*   corrupt   a regular file whose MD5 attribute holds a SHA-1 in hexadecimal
\*   dir       a directory
\*   mount     a directory on another device
\*   symfile   a symlink to a regular file
\*   symxdev   a symlink to a regular file on another device
\*   symdir    a symlink to a directory
\*   symfifo   a symlink to a named pipe
\*   dangling  a symlink to nothing
\*   fifo      a named pipe
\*   raced     read as a regular file, a directory by the time it is opened
\*   racedx    the same, on another device
EntryKinds ==
    {"file", "corrupt", "dir", "mount", "symfile", "symxdev", "symdir", "symfifo",
     "dangling", "fifo", "raced", "racedx"}

KindOf(t, path) ==
    IF path = MissingPath THEN "missing"
    ELSE IF path = RootPath THEN "dir"
    ELSE IF path \in {EntryPath(e) : e \in Entries} THEN t[path - 10]
    ELSE "file"

\* dent.Type()
Hint(kind) ==
    IF kind \in {"file", "corrupt", "raced", "racedx"} THEN "file"
    ELSE IF kind \in {"dir", "mount"} THEN "dir"
    ELSE IF kind = "fifo" THEN "fifo"
    ELSE "symlink"

\* the type that stat, which follows symlinks, finds; "none" for ENOENT
StatType(kind) ==
    IF kind \in {"file", "corrupt", "symfile", "symxdev"} THEN "file"
    ELSE IF kind \in {"dir", "mount", "symdir", "raced", "racedx"} THEN "dir"
    ELSE IF kind \in {"fifo", "symfifo"} THEN "fifo"
    ELSE "none"

DevOf(t, path) ==
    LET kind == KindOf(t, IF path > 20 THEN path - 10 ELSE path)
    IN IF kind \in {"mount", "symxdev", "racedx"} THEN 2 ELSE 1

\* the entries of the root that are files have one content, the files in
\* its subdirectories another
ContentOf(path) == IF path < 20 THEN 1 ELSE 2
TreeTime == 1700000000

\* the entries of a directory, by name
Dents(path) ==
    IF path = RootPath THEN [e \in Entries |-> EntryPath(e)] ELSE <<path + 10>>

\* ReadDir that sorts the entries by name
ReadDir_Sorted(path) == {Dents(path)}

\* it.File.ReadDir(-1): the entries in directory order, which is any order
ReadDir(path) ==
    {[i \in DOMAIN Dents(path) |-> Dents(path)[f[i]]] :
        f \in {g \in [DOMAIN Dents(path) -> DOMAIN Dents(path)] :
                  \A i, j \in DOMAIN Dents(path) : g[i] = g[j] => i = j}}

NilScanItem ==
    [Path |-> 0, File |-> 0, Mode |-> "nil", Size |-> 0, Time |-> 0, Dev |-> 0, Ino |-> 0]

\* item.Open(path): way is "ok", "open" (os.Open fails) or "stat" (f.Stat
\* fails); the item or nil, the open files and the log records afterwards
ItemOpen(t, hs, path, way) ==
    IF way = "open" \/ StatType(KindOf(t, path)) = "none"
    THEN [item |-> NilScanItem, handles |-> hs, log |-> {<<"failed to open file", path>>}]
    ELSE IF way = "stat"
    THEN [item |-> NilScanItem,
          handles |-> Append(hs, [path |-> path, closes |-> 0, lost |-> TRUE]),
          log |-> {<<"failed to stat file", path>>}]
    ELSE [item |-> [Path |-> path, File |-> Len(hs) + 1,
                    Mode |-> StatType(KindOf(t, path)),
                    Size |-> IF StatType(KindOf(t, path)) = "file"
                             THEN SizeOf(ContentOf(path)) ELSE 0,
                    Time |-> TreeTime, Dev |-> DevOf(t, path), Ino |-> path],
          handles |-> Append(hs, [path |-> path, closes |-> 0, lost |-> FALSE]),
          log |-> {}]

\* Item.Close
ItemClose(hs, item) ==
    IF item.File = 0 THEN hs ELSE [hs EXCEPT ![item.File].closes = @ + 1]

RECURSIVE CloseAll(_, _)
\* main's deferred loop: stack.Pop().Close() until the stack is empty
CloseAll(hs, st) ==
    IF st = <<>> THEN hs ELSE CloseAll(ItemClose(hs, st[Len(st)]), SubSeq(st, 1, Len(st) - 1))

\* the ways a call can go when failures are injected
Hows(failed, bad) == IF failed < MaxScanFail THEN {"ok"} \cup bad ELSE {"ok"}

ScanFaults(failed) ==
    IF failed < MaxScanFail
    THEN {NoFault, [op |-> "read", name |-> ""], [op |-> "nosup", name |-> ""]}
    ELSE {NoFault}

\* the command lines: the root with each setting of -xdev and of the rules,
\* and the other lists of roots with the defaults
TreeConfigs ==
    LET rule == <<[Pattern |-> {EntryPath(1)}, Exclude |-> TRUE]>>
    IN {[roots |-> <<RootPath>>, xdev |-> x, rules |-> r] :
            x \in BOOLEAN, r \in {<<>>, rule}}
       \cup {[roots |-> rs, xdev |-> FALSE, rules |-> <<>>] :
                rs \in {<<MissingPath, RootPath>>, <<EntryPath(1), RootPath>>,
                        <<RootPath, RootPath>>}}

InitTree ==
    /\ tree \in [Entries -> EntryKinds]
    /\ \E c \in TreeConfigs :
          /\ roots = c.roots
          /\ flagXdev = c.xdev
          /\ flagRules = c.rules
          \* a named pipe is not given as a root: opening it would block
          /\ \A i \in 1..Len(c.roots) : StatType(KindOf(tree, c.roots[i])) # "fifo"
    /\ flagRescan = FALSE /\ flagMinSize = 1 /\ flagNS = "user.dedupe."
    /\ tattrs = [p \in TreePaths |->
                    IF KindOf(tree, p) = "corrupt"
                    THEN [SavedAttrs([content |-> ContentOf(p), Time |-> TreeTime])
                             EXCEPT ![DefaultNames.Stamp] = NoAttr,
                                    ![DefaultNames.MD5] = hexEncode(Sum(SHA1Size, ContentOf(p)))]
                    ELSE EmptyAttrs]
    /\ tpc = "roots" /\ ri = 0 /\ stack = <<>>
    /\ cur = NilScanItem /\ child = NilScanItem /\ dents = <<>> /\ di = 0
    /\ handles = <<>> /\ sfails = 0 /\ tlog = {} /\ readdirs = <<>>
    /\ seen = <<>> /\ results = <<>>
    /\ IdleReplace
    /\ IdleGroup
    /\ IdleCache
    /\ IdlePure


\* main: Open(filepath.Clean(rootPath)) and Push, for the next root
OpenRoot ==
    /\ UNCHANGED notTree
    /\ tpc = "roots"
    /\ \E way \in Hows(sfails, IF KindOf(tree, roots[ri + 1]) = "missing" THEN {}
                                ELSE {"open", "stat"}) :
          LET o == ItemOpen(tree, handles, roots[ri + 1], way) IN
          /\ handles' = o.handles
          /\ stack' = IF o.item.File # 0 THEN Append(stack, o.item) ELSE stack
          /\ tlog' = tlog \cup o.log
          /\ sfails' = IF way = "ok" THEN sfails ELSE sfails + 1
    /\ ri' = ri + 1
    /\ tpc' = IF ri + 1 = Len(roots) THEN "loop" ELSE "roots"
    /\ UNCHANGED <<tree, roots, tattrs, cur, dents, di, child, readdirs, fvars, flagRules,
                   seen, results>>

\* ScanFile(seen, it) as a step of the scan, under a fault; on a panic the
\* deferred calls run: Scan closes its item (owner) and main closes the stack
ScanFileStep(it, owner, st, hs, fault) ==
    \E r \in {ScanFile(NewWorld(tattrs[it.Path]), it, ContentOf(it.Path), fault,
                       flagRescan, flagMinSize, flagNS, flagRules)} :
        /\ tattrs' = [tattrs EXCEPT ![it.Path] = r.w.attrs]
        /\ seen' = IF r.grouped THEN AddPath(seen, r.w.meta.SHA256, it.Path) ELSE seen
        /\ tlog' = tlog \cup {<<m, it.Path>> : m \in r.w.log}
        /\ sfails' = IF fault = NoFault THEN sfails ELSE sfails + 1
        /\ IF r.w.panic
           THEN /\ tpc' = "panic"
                /\ stack' = <<>>
                /\ handles' = CloseAll(ItemClose(hs, owner), st)
           ELSE /\ tpc' = IF owner = it THEN "loop" ELSE "dents"
                /\ stack' = st
                /\ handles' = IF owner = it THEN ItemClose(hs, owner) ELSE hs

\* the scan loop pops a regular file: Scan, ScanFile, and the deferred Close
PopFile ==
    /\ UNCHANGED notTree
    /\ tpc = "loop" /\ stack # <<>> /\ stack[Len(stack)].Mode = "file"
    /\ \E fault \in ScanFaults(sfails) :
          ScanFileStep(stack[Len(stack)], stack[Len(stack)],
                       SubSeq(stack, 1, Len(stack) - 1), handles, fault)
    /\ UNCHANGED <<tree, roots, ri, cur, dents, di, child, readdirs, fvars, flagRules,
                   results>>

\* the scan loop pops a directory: Scan, and ScanDir up to its loop
PopDir ==
    /\ UNCHANGED notTree
    /\ tpc = "loop" /\ stack # <<>> /\ stack[Len(stack)].Mode = "dir"
    /\ stack' = SubSeq(stack, 1, Len(stack) - 1)
    /\ LET it == stack[Len(stack)]
           e == Exclude(NewWorld(tattrs[it.Path]), NoFault, flagNS, it.Path, flagRules)
       IN IF e.excluded
          THEN /\ handles' = ItemClose(handles, it)
               /\ UNCHANGED <<tpc, cur, dents, di, child, readdirs, tlog, sfails>>
          ELSE /\ readdirs' = Append(readdirs, it.Path)
               /\ \E way \in Hows(sfails, {"readdir"}) :
                     IF way = "readdir"
                     THEN /\ tlog' = tlog \cup {<<"failed to read directory", it.Path>>}
                          /\ sfails' = sfails + 1
                          /\ handles' = ItemClose(handles, it)
                          /\ UNCHANGED <<tpc, cur, dents, di, child>>
                     ELSE /\ cur' = it
                          /\ dents' \in ReadDir(it.Path)
                          /\ di' = 1
                          /\ child' = NilScanItem
                          /\ tpc' = "dents"
                          /\ UNCHANGED <<handles, tlog, sfails>>
    /\ UNCHANGED <<tree, roots, tattrs, ri, fvars, flagRules, seen, results>>

\* the switch on the entry's type with every symlink followed to what it
\* leads to
DentType_FollowAll(hint, targetType) ==
    CASE hint = "file" -> "file"
      [] hint = "dir" -> "dir"
      [] hint = "symlink" -> IF targetType \in {"file", "dir"} THEN targetType ELSE "skip"
      [] OTHER -> "skip"

\* ScanDir: the switch on dent.Type(), the type the entry is taken for or
\* "skip" (continue); targetType is what os.Stat found behind a symlink
DentType(hint, targetType) ==
    CASE hint = "file" -> "file"
      [] hint = "dir" -> "dir"
      [] hint = "symlink" -> IF targetType # "file" THEN "skip" ELSE "file"
      [] OTHER -> "skip"

\* the test of the child's device without the -xdev case
OtherDevice_NoXdev(childDev, dirDev, xdev, fileType, fileType2) ==
    IF childDev # dirDev
    THEN IF fileType # fileType2 THEN TRUE ELSE FALSE
    ELSE FALSE

\* ScanDir: the child is on another device than the directory and is passed
\* over without a word (`continue` under `if child.Dev != it.Dev`)
OtherDevice(childDev, dirDev, xdev, fileType, fileType2) ==
    IF childDev # dirDev
    THEN IF xdev THEN TRUE
         ELSE IF fileType # fileType2 THEN TRUE ELSE FALSE
    ELSE FALSE

\* ScanDir: one iteration of the loop over the entries
ScanDent ==
    /\ UNCHANGED notTree
    /\ tpc = "dents" /\ di <= Len(dents)
    /\ di' = di + 1
    /\ LET filePath == dents[di]
           kind == KindOf(tree, filePath)
           fileType == DentType(Hint(kind), StatType(kind))
       IN \/ \* a type that is not scanned, or a symlink to something that is
             \* not a regular file
             /\ fileType = "skip"
             /\ UNCHANGED <<tpc, stack, child, handles, sfails, tlog, tattrs, seen>>
          \/ \* os.Stat of a symlink fails
             /\ Hint(kind) = "symlink" /\ fileType # "skip"
             /\ sfails < MaxScanFail
             /\ sfails' = sfails + 1
             /\ UNCHANGED <<tpc, stack, child, handles, tlog, tattrs, seen>>
          \/ /\ fileType # "skip"
             /\ \E way \in Hows(sfails, {"open", "stat"}) :
                   LET o == ItemOpen(tree, ItemClose(handles, child), filePath, way)
                       fileType2 == o.item.Mode
                   IN IF o.item.File = 0
                      THEN /\ child' = NilScanItem
                           /\ handles' = o.handles
                           /\ tlog' = tlog \cup o.log
                           /\ sfails' = IF way = "ok" THEN sfails ELSE sfails + 1
                           /\ UNCHANGED <<tpc, stack, tattrs, seen>>
                      ELSE IF OtherDevice(o.item.Dev, cur.Dev, flagXdev, fileType, fileType2)
                      THEN /\ child' = o.item
                           /\ handles' = o.handles
                           /\ UNCHANGED <<tpc, stack, tlog, sfails, tattrs, seen>>
                      ELSE IF fileType # fileType2
                      THEN /\ child' = o.item
                           /\ handles' = o.handles
                           /\ tlog' = tlog \cup {<<"file type mismatch", filePath>>}
                           /\ UNCHANGED <<tpc, stack, sfails, tattrs, seen>>
                      ELSE IF fileType = "dir"
                      THEN /\ stack' = Append(stack, o.item)
                           /\ child' = NilScanItem
                           /\ handles' = o.handles
                           /\ UNCHANGED <<tpc, tlog, sfails, tattrs, seen>>
                      ELSE /\ child' = o.item
                           /\ \E fault \in ScanFaults(sfails) :
                                 ScanFileStep(o.item, cur, stack, o.handles, fault)
    /\ UNCHANGED <<tree, roots, ri, cur, dents, readdirs, fvars, flagRules, results>>

\* ScanDir returns after the last entry: child.Close(), and Scan's deferred
\* it.Close()
ScanDirEnd ==
    /\ UNCHANGED notTree
    /\ tpc = "dents" /\ di > Len(dents)
    /\ handles' = ItemClose(ItemClose(handles, child), cur)
    /\ child' = NilScanItem
    /\ cur' = NilScanItem
    /\ tpc' = "loop"
    /\ UNCHANGED <<tree, roots, tattrs, ri, stack, dents, di, sfails, tlog, readdirs,
                   fvars, flagRules, seen, results>>

\* main: the stack is empty; sort the digests and encode the result
Output ==
    /\ UNCHANGED notTree
    /\ tpc = "loop" /\ stack = <<>>
    /\ results' = Results4(seen)
    /\ tpc' = "output"
    /\ UNCHANGED <<tree, roots, tattrs, ri, stack, cur, dents, di, child, handles, sfails,
                   tlog, readdirs, fvars, flagRules, seen>>

\* the garbage collector runs the finalizer of an os.File that Open dropped
Finalize ==
    /\ UNCHANGED notTree
    /\ \E h \in 1..Len(handles) :
          /\ handles[h].lost /\ handles[h].closes = 0
          /\ handles' = [handles EXCEPT ![h].closes = 1]
    /\ UNCHANGED <<tree, roots, tattrs, tpc, ri, stack, cur, dents, di, child, sfails,
                   tlog, readdirs, fvars, flagRules, seen, results>>

NextTree ==
    OpenRoot \/ PopFile \/ PopDir \/ ScanDent \/ ScanDirEnd \/ Output \/ Finalize

SpecTree == InitTree /\ [][NextTree]_vars

(* ========================= claims on SpecTree ========================== *)
\* C9: no failure to open a root, read a directory, open or stat a child, or
\* load or compute a file's metadata aborts the run: the scan never ends in
\* a panic, and so always goes on to the output step.
C9_ScanNeverAborts == tpc # "panic"

\* C10: every file opened by item.Open is closed at most once at any time,
\* and exactly once by the time the scan loop has emptied the stack and the
\* output is produced.
C10_HandlesClosedOnce ==
    /\ \A h \in 1..Len(handles) : handles[h].closes <= 1
    /\ tpc = "output" => \A h \in 1..Len(handles) : handles[h].closes = 1

\* the paths grouped so far, the devices of the root given on the command line
Grouped == UNION {{seen[h][i] : i \in 1..Len(seen[h])} : h \in DOMAIN seen}
RootDev == DevOf(tree, RootPath)

\* C23: with -xdev, ScanDir hashes no child and pushes no child whose device
\* differs from that of the directory it was found in: every item on the
\* stack, every directory read and every file grouped has the device of the
\* root, also when the entry is a symlink to a regular file on another device.
C23_XdevStaysOnDevice ==
    flagXdev =>
        /\ \A i \in 1..Len(stack) : stack[i].Dev = RootDev
        /\ \A i \in 1..Len(readdirs) : DevOf(tree, readdirs[i]) = RootDev
        /\ \A p \in Grouped : DevOf(tree, p) = RootDev
        /\ \A p \in TreePaths : DevOf(tree, p) # RootDev => tattrs[p] = EmptyAttrs

\* the scan has ended with a file grouped, having met a symlink to a file on
\* another device
C23_Witness ==
    /\ flagXdev /\ tpc = "output" /\ Grouped # {}
    /\ \E e \in Entries : tree[e] = "symxdev"

\* the paths for which item.Open got a file
Opened == {handles[h].path : h \in 1..Len(handles)}
\* the paths given on the command line
Roots == {roots[i] : i \in 1..Len(roots)}

\* the entry is a symlink that does not lead to a regular file
DeadLink(e) == tree[e] \in {"symdir", "symfifo", "dangling"}

\* C24: an entry that is a symlink is processed only when its target is a
\* regular file, and is then scanned as a file under the symlink's own path;
\* a symlink to a directory, to anything else or to nothing is never opened,
\* never pushed on the stack, never read as a directory and never hashed.
C24_SymlinkOnlyToFile ==
    \A e \in Entries :
        /\ (DeadLink(e) /\ EntryPath(e) \notin Roots) =>
              /\ EntryPath(e) \notin Opened
              /\ \A i \in 1..Len(stack) : stack[i].Path # EntryPath(e)
              /\ \A i \in 1..Len(readdirs) : readdirs[i] # EntryPath(e)
              /\ EntryPath(e) \notin Grouped /\ SubPath(e) \notin Grouped
              /\ tattrs[EntryPath(e)] = EmptyAttrs
        /\ tree[e] \in {"symfile", "symxdev"} =>
              /\ \A i \in 1..Len(stack) : stack[i].Path = EntryPath(e) => stack[i].Mode = "file"
              /\ \A i \in 1..Len(readdirs) : readdirs[i] # EntryPath(e)

\* the scan has ended: a symlink to a file was grouped under its own path and
\* a symlink to a directory was passed over
C24_Witness ==
    /\ tpc = "output" /\ Roots = {RootPath}
    /\ \E e \in Entries : tree[e] = "symfile" /\ EntryPath(e) \in Grouped
    /\ \E e \in Entries : tree[e] = "symdir"

\* the step is one iteration of ScanDir's loop, over the entry dents[di]
ScanDentRan == tpc = "dents" /\ di <= Len(dents) /\ di' = di + 1

\* the log has a record about the path
LoggedAbout(log, path) == \E r \in log : r[2] = path

\* a call of the iteration failed: os.Stat of the symlink or os.Open of the
\* child (no file was opened), or the Stat of the opened file
CallFailed ==
    /\ sfails' > sfails
    /\ \/ Len(handles') = Len(handles)
       \/ handles'[Len(handles')].lost

\* the entry is a symlink that os.Stat cannot resolve
Unresolvable(path) ==
    Hint(KindOf(tree, path)) = "symlink" /\ StatType(KindOf(tree, path)) = "none"

\* the entry was opened and is not of the type ReadDir gave for it
Mismatch(path) ==
    /\ child'.Path = path
    /\ child'.Mode # DentType(Hint(KindOf(tree, path)), StatType(KindOf(tree, path)))

\* C26: every failed or rejected operation of the scan produces a log
\* record: an iteration of ScanDir's loop in which a call failed, a symlink
\* could not be resolved or the child's type was not the one ReadDir gave,
\* on the directory's device or on another, leaves a record about the entry.
C26_EveryFailureLogged ==
    [][ScanDentRan =>
          ((CallFailed \/ Unresolvable(dents[di]) \/ Mismatch(dents[di]))
              => LoggedAbout(tlog', dents[di]))]_vars

\* the paths of the list are in sorted order
SortedPaths(list) == \A i, j \in 1..Len(list) : i < j => list[i] <= list[j]

\* C28: the result does not depend on the order in which ReadDir returns the
\* entries of a directory: the groups are in the order of their digests and
\* the paths inside each group are in sorted order, whatever order the files
\* were processed in.
C28_OutputOrderIndependent ==
    tpc = "output" =>
        /\ [g \in 1..Len(results) |-> results[g].hash]
              = SortedHashes({results[g].hash : g \in 1..Len(results)})
        /\ \A g \in 1..Len(results) : SortedPaths(results[g].paths)

\* flagRules.Exclude is true for the directory
ExcludedDir(path) ==
    Exclude(NewWorld(tattrs[path]), NoFault, flagNS, path, flagRules).excluded

\* the kinds of entry that ScanDir pushes as a directory
PushedKinds == IF flagXdev THEN {"dir"} ELSE {"dir", "mount"}

\* the scan that starts at the root path r reads the directory d: d is r
\* itself, or an entry of r that is a directory, no symlink, and on r's device
\* under -xdev; neither is excluded
Reaches(r, d) ==
    /\ StatType(KindOf(tree, d)) = "dir" /\ ~ExcludedDir(d)
    /\ \/ r = d
       \/ /\ r = RootPath /\ ~ExcludedDir(r)
          /\ \E e \in Entries : d = EntryPath(e) /\ tree[e] \in PushedKinds

\* how often the directory was read, and how often it is reached
ReadCount(d) == Cardinality({i \in 1..Len(readdirs) : readdirs[i] = d})
ReachCount(d) == Cardinality({i \in 1..Len(roots) : Reaches(roots[i], d)})

\* the tree stays as it is during the scan and no call fails
QuietScan == sfails = 0 /\ \A e \in Entries : tree[e] \notin {"raced", "racedx"}

\* an iteration of ScanDir's loop pushes at most one Item: a directory that
\* is an entry of the directory being read, on a file opened in this
\* iteration (so no Item that was popped before)
PushesOwnEntry ==
    (tpc = "dents" /\ tpc' # "panic" /\ stack' # stack) =>
        /\ Len(stack') = Len(stack) + 1
        /\ SubSeq(stack', 1, Len(stack)) = stack
        /\ stack'[Len(stack')].Mode = "dir"
        /\ \E i \in 1..Len(Dents(cur.Path)) : Dents(cur.Path)[i] = stack'[Len(stack')].Path
        /\ stack'[Len(stack')].File > Len(handles)

\* what is left to do for an Item on the stack: the root directory has
\* NumEntries entries, every other directory one; each entry takes an
\* iteration and may push a directory
Weight(item) ==
    IF item.Path = RootPath /\ item.Mode = "dir" THEN 8 * NumEntries + 8 ELSE 5

RECURSIVE StackWeight(_)
StackWeight(st) == IF st = <<>> THEN 0 ELSE Weight(Head(st)) + StackWeight(Tail(st))

\* a bound on the steps the program has left: roots to open, Items to pop,
\* entries of the directory being read, and the output
Variant ==
    (Len(roots) - ri) * (8 * NumEntries + 9)
        + StackWeight(stack)
        + (IF tpc = "dents"
           THEN (Len(dents) + 1 - di) * (IF cur.Path = RootPath THEN 6 ELSE 1) + 1
           ELSE 0)
        + (IF tpc \in {"output", "panic"} THEN 0 ELSE 1)

\* the step is one of main, Scan, ScanDir or ScanFile
ScanStep == <<tpc, ri, stack, di>>' # <<tpc, ri, stack, di>>

\* C32: for every tree and every list of roots the scan loop ends with the
\* stack empty and not by an abort; ScanDir pushes only directories that are
\* entries of the directory it reads, a popped Item is never pushed again,
\* and every directory reachable from a root without crossing an excluded
\* directory, a skipped device boundary or a symlink is read exactly once per
\* root path that reaches it.
C32_ScanLoopTerminates ==
    /\ [](tpc \in {"roots", "loop", "dents", "output"})
    /\ [](tpc = "output" => stack = <<>>)
    /\ []((tpc = "output" /\ QuietScan) =>
             \A d \in TreePaths : ReadCount(d) = ReachCount(d))
    /\ [][PushesOwnEntry]_vars
    /\ [][ScanStep => (Variant' < Variant /\ Variant' >= 0)]_vars

\* no path is listed twice
NoRepeat(list) == \A i, j \in 1..Len(list) : list[i] = list[j] => i = j

\* C34: no group of the result lists the same path more than once, whatever
\* the roots are, a root given twice and roots nested in one another
\* included.
C34_NoPathTwiceInGroup ==
    tpc = "output" => \A g \in 1..Len(results) : NoRepeat(results[g].paths)

(* ======================================================================= *)
(* internal/glob: the glob compiler                                        *)
(* ======================================================================= *)
\* A Go string is modelled as the sequence of its code points, each named by
\* a TLA+ string; the byte 0xFF, which is not valid UTF-8 anywhere, is the
\* element "xFF".  U00E9 is the precomposed e-acute, U0301 the combining
\* acute accent, U1D11E a code point of four bytes.

MaxLen == 4

\* len() of the UTF-8 encoding of one element
RuneLen(ch) ==
    CASE ch = "U1D11E" -> 4
      [] ch \in {"U00E9", "U0301"} -> 2
      [] OTHER -> 1

RECURSIVE ByteLen(_)
ByteLen(s) == IF s = <<>> THEN 0 ELSE RuneLen(Head(s)) + ByteLen(Tail(s))

\* norm.NFD.String: canonical decomposition; bytes that are not UTF-8 are
\* copied
RECURSIVE NFD(_)
NFD(s) ==
    IF s = <<>> THEN <<>>
    ELSE IF Head(s) = "U00E9" THEN <<"e", "U0301">> \o NFD(Tail(s))
    ELSE <<Head(s)>> \o NFD(Tail(s))

rxSlash == <<"/", "+">>
rxQuestion == <<"[", "^", "/", "]">>
rxStar == <<"[", "^", "/", "]", "*">>
rxStarStar == <<".", "*">>

\* the value -1 of gc.char
NoRune == "-1"

\* utf8.DecodeRuneInString gives (RuneError, 1) on a byte that is not UTF-8
\* and (RuneError, 0) on the empty string
peekRune(g) ==
    IF g.err = "" /\ ~g.hasChar /\ g.input # <<>> /\ Head(g.input) # "xFF"
    THEN [g EXCEPT !.input = Tail(g.input), !.char = Head(g.input), !.hasChar = TRUE]
    ELSE g

consumeRune(g, expect) ==
    IF g.err # "" THEN [g EXCEPT !.panic = TRUE]
    ELSE IF ~peekRune(g).hasChar THEN [peekRune(g) EXCEPT !.panic = TRUE]
    ELSE IF peekRune(g).char # expect THEN [peekRune(g) EXCEPT !.panic = TRUE]
    ELSE [peekRune(g) EXCEPT !.hasChar = FALSE, !.char = NoRune]

fail(g, e) ==
    IF g.err # "" THEN [g EXCEPT !.panic = TRUE]
    ELSE [g EXCEPT !.err = e, !.input = <<>>, !.depth = 0, !.char = NoRune,
                   !.hasChar = FALSE, !.state = "stateDone"]

\* gc.input[:8] is out of range when fewer than 8 bytes are left
requireEOF(g) ==
    IF g.err # "" THEN g
    ELSE IF Len(g.input) > 0
    THEN IF ByteLen(g.input) < 8 THEN [g EXCEPT !.panic = TRUE]
         ELSE fail(g, "invalid UTF-8 in pattern")
    ELSE IF g.depth > 0 THEN fail(g, "expected depth=0")
    ELSE fail([g EXCEPT !.output = g.output \o <<"$">>], "io.EOF")

\* regexp.QuoteMeta(string(ch))
QuoteMeta(ch) ==
    IF ch \in {"\\", ".", "+", "*", "?", "(", ")", "|", "[", "]", "{", "}", "^", "$"}
    THEN <<"\\", ch>>
    ELSE <<ch>>

\* the default case of onReady with the rune written as it is
onReadyLiteral_Raw(p) ==
    IF consumeRune(p, p.char).panic THEN consumeRune(p, p.char)
    ELSE [consumeRune(p, p.char) EXCEPT !.output = p.output \o <<p.char>>]

\* the default case of onReady, after the peek
onReadyLiteral(p) ==
    IF consumeRune(p, p.char).panic THEN consumeRune(p, p.char)
    ELSE [consumeRune(p, p.char) EXCEPT !.output = p.output \o QuoteMeta(p.char)]

\* the switch of onReady with "," and "}" special at every depth
onReadySwitch_AnyDepth(p) ==
    CASE p.char = "\\" -> fail(p, "unexpected character '\\'")
      [] p.char = "/" -> [p EXCEPT !.state = "stateSlash"]
      [] p.char = "*" -> [p EXCEPT !.state = "stateStar"]
      [] p.char = "?" -> [p EXCEPT !.state = "stateQuestion"]
      [] p.char = "[" -> [p EXCEPT !.state = "stateOpenBracket"]
      [] p.char = "{" -> [p EXCEPT !.state = "stateOpenBrace"]
      [] p.char = "," -> [p EXCEPT !.state = "stateComma"]
      [] p.char = "}" -> [p EXCEPT !.state = "stateCloseBrace"]
      [] OTHER -> onReadyLiteral(p)

\* the switch of onReady, after the peek
onReadySwitch(p) ==
    CASE p.char = "\\" -> fail(p, "unexpected character '\\'")
      [] p.char = "/" -> [p EXCEPT !.state = "stateSlash"]
      [] p.char = "*" -> [p EXCEPT !.state = "stateStar"]
      [] p.char = "?" -> [p EXCEPT !.state = "stateQuestion"]
      [] p.char = "[" -> [p EXCEPT !.state = "stateOpenBracket"]
      [] p.char = "{" -> [p EXCEPT !.state = "stateOpenBrace"]
      [] p.char = "," /\ p.depth > 0 -> [p EXCEPT !.state = "stateComma"]
      [] p.char = "}" /\ p.depth > 0 -> [p EXCEPT !.state = "stateCloseBrace"]
      [] OTHER -> onReadyLiteral(p)

onReady(g) ==
    IF ~peekRune(g).hasChar THEN requireEOF(peekRune(g))
    ELSE onReadySwitch(peekRune(g))

\* the loop of onSlash: for ok && ch == '/'
RECURSIVE onSlashLoop(_)
onSlashLoop(g) ==
    IF g.panic THEN g
    ELSE IF peekRune(g).hasChar /\ peekRune(g).char = "/"
    THEN onSlashLoop(consumeRune(peekRune(g), "/"))
    ELSE peekRune(g)

\* the end of a handler: append the fragment and go back to stateReady
appendOutput(g, fragment) ==
    IF g.panic THEN g
    ELSE [g EXCEPT !.output = g.output \o fragment, !.state = "stateReady"]

onSlash(g) == appendOutput(onSlashLoop(consumeRune(g, "/")), rxSlash)

\* the loop of onBracket
RECURSIVE onBracketLoop(_, _)
onBracketLoop(g, inEscape) ==
    IF g.panic THEN g
    ELSE IF ~peekRune(g).hasChar
    THEN fail(peekRune(g), "invalid character match [ab...]: unexpected EOF")
    ELSE IF inEscape
    THEN onBracketLoop(appendOutput(consumeRune(peekRune(g), peekRune(g).char),
                            <<"\\", peekRune(g).char>>), FALSE)
    ELSE IF peekRune(g).char = "\\"
    THEN onBracketLoop(consumeRune(peekRune(g), "\\"), TRUE)
    ELSE IF peekRune(g).char = "]"
    THEN appendOutput(consumeRune(peekRune(g), "]"), <<"]">>)
    ELSE onBracketLoop(appendOutput(consumeRune(peekRune(g), peekRune(g).char),
                            <<peekRune(g).char>>), FALSE)

\* the optional '^' after '['
onBracketNegate(g) ==
    IF g.panic THEN g
    ELSE IF peekRune(g).hasChar /\ peekRune(g).char = "^"
    THEN appendOutput(consumeRune(peekRune(g), "^"), <<"^">>)
    ELSE peekRune(g)

onBracket(g) ==
    onBracketLoop(onBracketNegate(appendOutput(consumeRune(g, "["), <<"[">>)), FALSE)

onQuestion(g) == appendOutput(consumeRune(g, "?"), rxQuestion)

\* the second '*' of "**"
onStarStar(g) ==
    IF g.panic THEN g
    ELSE IF peekRune(g).hasChar /\ peekRune(g).char = "*"
    THEN appendOutput(consumeRune(peekRune(g), "*"), rxStarStar)
    ELSE appendOutput(peekRune(g), rxStar)

onStar(g) == onStarStar(consumeRune(g, "*"))

\* gc.depth++ and gc.depth--; depth is a uint, and a decrement at zero, which
\* would wrap around in Go, shows here as a depth below zero
Deeper(g, by) == IF g.panic THEN g ELSE [g EXCEPT !.depth = g.depth + by]

onOpenBrace(g) == Deeper(appendOutput(consumeRune(g, "{"), <<"(", "?", ":">>), 1)

onComma(g) == appendOutput(consumeRune(g, ","), <<"|">>)

onCloseBrace(g) == Deeper(appendOutput(consumeRune(g, "}"), <<")">>), -1)

step(g) ==
    CASE g.state = "stateDone" -> g
      [] g.state = "stateReady" -> onReady(g)
      [] g.state = "stateSlash" -> onSlash(g)
      [] g.state = "stateOpenBracket" -> onBracket(g)
      [] g.state = "stateQuestion" -> onQuestion(g)
      [] g.state = "stateStar" -> onStar(g)
      [] g.state = "stateOpenBrace" -> onOpenBrace(g)
      [] g.state = "stateComma" -> onComma(g)
      [] g.state = "stateCloseBrace" -> onCloseBrace(g)

Reset(g, input) ==
    [g EXCEPT !.output = <<"^">>, !.input = input, !.err = "", !.state = "stateReady",
              !.depth = 0, !.hasChar = FALSE, !.char = NoRune]

\* for gc.step() { }: a handler returns false exactly when it called fail
RECURSIVE Run(_)
Run(g) == IF g.panic \/ g.state = "stateDone" THEN g ELSE Run(step(g))

(* ---- regexp.Compile, for the expressions over the alphabet ---- *)
\* ASCII punctuation: a backslash before one of these is that character
AsciiPunct ==
    {"/", "*", "?", "[", "]", "^", "{", ",", "}", "\\", "(", ")", "|", "$", ".", "+",
     ":", "-"}

\* regexp/syntax parseEscape: t starts with a backslash.  Of the letters only
\* a, f, n, r, t, v name one character.
EscapeOK(t) ==
    /\ Len(t) >= 2
    /\ t[2] \in AsciiPunct \cup {"a", "f", "n", "r", "t", "v"}

\* regexp/syntax parseClass after "[" and "^": a "]" that comes first is a
\* member; the result is what follows the class, or a failure when the class
\* has no end, holds a bad escape or bytes that are not UTF-8
RECURSIVE ParseClass(_, _)
ParseClass(t, first) ==
    IF t = <<>> THEN [ok |-> FALSE, rest |-> <<>>]
    ELSE IF Head(t) = "]" /\ ~first THEN [ok |-> TRUE, rest |-> Tail(t)]
    ELSE IF Head(t) = "xFF" THEN [ok |-> FALSE, rest |-> <<>>]
    ELSE IF Head(t) = "\\"
    THEN IF EscapeOK(t) THEN ParseClass(SubSeq(t, 3, Len(t)), FALSE)
         ELSE [ok |-> FALSE, rest |-> <<>>]
    ELSE ParseClass(Tail(t), FALSE)

\* t without a leading "^" (the negation of a class) or "?" (a lazy repeat)
SkipOne(t, ch) == IF t # <<>> /\ Head(t) = ch THEN Tail(t) ELSE t

\* regexp/syntax Parse with the Perl flags: top is what lies on top of the
\* parser's stack ("empty", "pseudo" for an open parenthesis or a vertical
\* bar, "expr"), rep whether the last item was a repetition, open the number
\* of open parentheses.  No element of the alphabet is a digit, so "{" never
\* starts a repeat count and is a literal.
RECURSIVE RegexpParse(_, _, _, _)
RegexpParse(t, top, rep, open) ==
    IF t = <<>> THEN open = 0
    ELSE CASE Head(t) = "xFF" -> FALSE
           [] Head(t) = "(" ->
                IF Len(t) >= 2 /\ t[2] = "?"
                THEN /\ Len(t) >= 3 /\ t[3] = ":"
                     /\ RegexpParse(SubSeq(t, 4, Len(t)), "pseudo", FALSE, open + 1)
                ELSE RegexpParse(Tail(t), "pseudo", FALSE, open + 1)
           [] Head(t) = "|" -> RegexpParse(Tail(t), "pseudo", FALSE, open)
           [] Head(t) = ")" ->
                open > 0 /\ RegexpParse(Tail(t), "expr", FALSE, open - 1)
           [] Head(t) = "[" ->
                /\ ParseClass(SkipOne(Tail(t), "^"), TRUE).ok
                /\ RegexpParse(ParseClass(SkipOne(Tail(t), "^"), TRUE).rest,
                               "expr", FALSE, open)
           [] Head(t) \in {"*", "+", "?"} ->
                /\ ~rep /\ top = "expr"
                /\ RegexpParse(SkipOne(Tail(t), "?"), "expr", TRUE, open)
           [] Head(t) = "\\" ->
                EscapeOK(t) /\ RegexpParse(SubSeq(t, 3, Len(t)), "expr", FALSE, open)
           [] OTHER -> RegexpParse(Tail(t), "expr", FALSE, open)

\* regexp.Compile(expr): (rx, nil) or (nil, err)
RegexpCompile(expr) ==
    IF RegexpParse(expr, "empty", FALSE, 0)
    THEN [done |-> TRUE, panic |-> FALSE, rx |-> expr, err |-> ""]
    ELSE [done |-> TRUE, panic |-> FALSE, rx |-> <<>>, err |-> "error parsing regexp"]

Panicked == [done |-> TRUE, panic |-> TRUE, rx |-> <<>>, err |-> ""]

\* (*Compiler).Compile
CompilerCompile(g) ==
    IF g.err = "" THEN Panicked
    ELSE IF g.err = "io.EOF" THEN RegexpCompile(g.output)
    ELSE [done |-> TRUE, panic |-> FALSE, rx |-> <<>>, err |-> g.err]

HasPrefix(s, ch) == s # <<>> /\ Head(s) = ch

\* glob.Compile as one function
RunCompile(g) == IF g.panic THEN Panicked ELSE CompilerCompile(g)

Compile(input) ==
    IF HasPrefix(NFD(input), "^") THEN RegexpCompile(NFD(input))
    ELSE RunCompile(Run(Reset(ZeroCompiler, NFD(input))))

(* ---- glob.Compile step by step (SpecGlob) ---- *)
GlobRunes ==
    {"/", "*", "?", "[", "]", "^", "{", ",", "}", "\\", "xFF", "U1D11E", "U00E9"}

RECURSIVE Strings(_, _)
Strings(alphabet, n) ==
    IF n = 0 THEN {<<>>}
    ELSE Strings(alphabet, n - 1)
             \cup {<<ch>> \o s : ch \in alphabet, s \in Strings(alphabet, n - 1)}

InitGlob ==
    /\ pin \in Strings(GlobRunes, MaxLen)
    /\ pout = NotApplied
    /\ gc = ZeroCompiler
    /\ IdlePrograms

\* Compile up to gc.Run(): a pattern that starts with "^" goes to
\* regexp.Compile as it is
CompileEnter ==
    /\ UNCHANGED <<notPure, pin>>
    /\ ~pout.done /\ gc = ZeroCompiler
    /\ IF HasPrefix(NFD(pin), "^")
       THEN pout' = RegexpCompile(NFD(pin)) /\ UNCHANGED gc
       ELSE gc' = Reset(gc, NFD(pin)) /\ UNCHANGED pout

\* gc.step() is running in the given state
InState(state) == ~pout.done /\ ~gc.panic /\ gc.state = state

\* the handler has left the compiler as g; a panic ends the call of Compile
Stepped(g) ==
    /\ UNCHANGED <<notPure, pin>>
    /\ gc' = g
    /\ pout' = IF g.panic THEN Panicked ELSE pout

RunReady == InState("stateReady") /\ Stepped(onReady(gc))

RunSlash == InState("stateSlash") /\ Stepped(onSlash(gc))

RunBracket == InState("stateOpenBracket") /\ Stepped(onBracket(gc))

RunQuestion == InState("stateQuestion") /\ Stepped(onQuestion(gc))

RunStar == InState("stateStar") /\ Stepped(onStar(gc))

RunOpenBrace == InState("stateOpenBrace") /\ Stepped(onOpenBrace(gc))

RunComma == InState("stateComma") /\ Stepped(onComma(gc))

RunCloseBrace == InState("stateCloseBrace") /\ Stepped(onCloseBrace(gc))

\* the loop of Run has ended: return gc.Compile()
CompileReturn ==
    /\ UNCHANGED <<notPure, pin, gc>>
    /\ ~pout.done /\ ~gc.panic /\ gc.state = "stateDone" /\ gc # ZeroCompiler
    /\ pout' = CompilerCompile(gc)

NextGlob ==
    \/ CompileEnter
    \/ RunReady \/ RunSlash \/ RunBracket \/ RunQuestion \/ RunStar
    \/ RunOpenBrace \/ RunComma \/ RunCloseBrace
    \/ CompileReturn

SpecGlob == InitGlob /\ [][NextGlob]_vars

(* ---- C18: the results of glob.Compile ---- *)
\* the glob grammar: a class runs from "[" (and "^") to the next "]" that no
\* backslash escapes
RECURSIVE ClassEnd(_, _)
ClassEnd(s, inEscape) ==
    IF s = <<>> THEN [ok |-> FALSE, rest |-> <<>>]
    ELSE IF inEscape THEN ClassEnd(Tail(s), FALSE)
    ELSE IF Head(s) = "\\" THEN ClassEnd(Tail(s), TRUE)
    ELSE IF Head(s) = "]" THEN [ok |-> TRUE, rest |-> Tail(s)]
    ELSE ClassEnd(Tail(s), FALSE)

\* the pattern has a character class without end, or a brace group that is
\* still open at the end of the input
RECURSIVE Malformed(_, _)
Malformed(s, depth) ==
    IF s = <<>> THEN depth > 0
    ELSE CASE Head(s) = "[" ->
                IF ClassEnd(SkipOne(Tail(s), "^"), FALSE).ok
                THEN Malformed(ClassEnd(SkipOne(Tail(s), "^"), FALSE).rest, depth)
                ELSE TRUE
           [] Head(s) = "{" -> Malformed(Tail(s), depth + 1)
           [] Head(s) = "}" /\ depth > 0 -> Malformed(Tail(s), depth - 1)
           [] OTHER -> Malformed(Tail(s), depth)

InvalidUTF8(s) == \E i \in 1..Len(s) : s[i] = "xFF"

ReturnedRegexp == ~pout.panic /\ pout.rx # <<>> /\ pout.err = ""
ReturnedError == ~pout.panic /\ pout.rx = <<>> /\ pout.err # ""

\* the clauses of C18 that do not speak of crashes
C18_ErrorClauses ==
    pout.done =>
        /\ pout.panic \/ ReturnedRegexp \/ ReturnedError
        /\ (~HasPrefix(pin, "^") /\ ~pout.panic
                /\ (Malformed(pin, 0) \/ InvalidUTF8(pin))) => ReturnedError

\* C18: for every input string glob.Compile returns either a regular
\* expression and no error, or no regular expression and an error; it never
\* crashes; a glob pattern (one that does not start with "^") with a character
\* class without end, a brace group open at the end of the input, or bytes
\* that are not UTF-8, gives an error.
C18_CompileReturnsRegexpOrError ==
    pout.done =>
        /\ ReturnedRegexp \/ ReturnedError
        /\ (~HasPrefix(pin, "^") /\ (Malformed(pin, 0) \/ InvalidUTF8(pin)))
               => ReturnedError

(* ---- Regexp.MatchString, for the expressions Compile builds ---- *)
\* A set of characters: the members, and whether the set is negated.
CharIn(cs, ch) == (ch \in cs.set) # cs.neg

\* the members of a class from position i (after "[" and "^") to its "]";
\* next is the position after the "]"
RECURSIVE ClassMembers(_, _, _, _)
ClassMembers(rx, i, first, acc) ==
    IF i > Len(rx) THEN [set |-> acc, next |-> i]
    ELSE IF rx[i] = "]" /\ ~first THEN [set |-> acc, next |-> i + 1]
    ELSE IF rx[i] = "\\" /\ i < Len(rx)
    THEN ClassMembers(rx, i + 2, FALSE, acc \cup {rx[i + 1]})
    ELSE ClassMembers(rx, i + 1, FALSE, acc \cup {rx[i]})

\* the class that starts with the "[" at position i
ClassAt(rx, i) ==
    IF i < Len(rx) /\ rx[i + 1] = "^"
    THEN [neg |-> TRUE] @@ ClassMembers(rx, i + 2, TRUE, {})
    ELSE [neg |-> FALSE] @@ ClassMembers(rx, i + 1, TRUE, {})

\* the positions of the text after one character of cs, from the positions P
StepChar(text, P, cs) ==
    {p + 1 : p \in {q \in P : q < Len(text) /\ CharIn(cs, text[q + 1])}}

\* ... after zero or more characters of cs
RECURSIVE StarChar(_, _, _)
StarChar(text, P, cs) ==
    IF StepChar(text, P, cs) \subseteq P THEN P
    ELSE StarChar(text, P \cup StepChar(text, P, cs), cs)

\* one character of cs with the repetition, if any, at position i
Repeated(rx, i, text, P, cs) ==
    IF i <= Len(rx) /\ rx[i] = "*"
    THEN [S |-> StarChar(text, P, cs), next |-> i + 1]
    ELSE IF i <= Len(rx) /\ rx[i] = "+"
    THEN [S |-> StarChar(text, StepChar(text, P, cs), cs), next |-> i + 1]
    ELSE [S |-> StepChar(text, P, cs), next |-> i]

\* "." matches every character but the newline
AnyCharNotNL == [neg |-> TRUE, set |-> {"\n"}]

RECURSIVE MatchConcat(_, _, _, _)
RECURSIVE MatchAlternate(_, _, _, _)

\* the rest of a concatenation after the item that ended before position r.next
MatchRest(rx, text, r) == MatchConcat(rx, r.next, text, r.S)

\* the rest of a concatenation after the group whose alternatives ended at the
\* ")" at position r.next
MatchAfterGroup(rx, text, r) == MatchConcat(rx, r.next + 1, text, r.S)

\* a concatenation from position i up to "|", ")" or the end: the positions of
\* the text it can end at when it starts at one of P
MatchConcat(rx, i, text, P) ==
    IF i > Len(rx) \/ rx[i] \in {"|", ")"} THEN [S |-> P, next |-> i]
    ELSE CASE rx[i] = "^" -> MatchConcat(rx, i + 1, text, P \cap {0})
           [] rx[i] = "$" -> MatchConcat(rx, i + 1, text, P \cap {Len(text)})
           [] rx[i] = "(" -> MatchAfterGroup(rx, text, MatchAlternate(rx, i + 3, text, P))
           [] rx[i] = "[" ->
                MatchRest(rx, text,
                          Repeated(rx, ClassAt(rx, i).next, text, P, ClassAt(rx, i)))
           [] rx[i] = "." ->
                MatchRest(rx, text, Repeated(rx, i + 1, text, P, AnyCharNotNL))
           [] rx[i] = "\\" ->
                MatchRest(rx, text,
                          Repeated(rx, i + 2, text, P, [neg |-> FALSE, set |-> {rx[i + 1]}]))
           [] OTHER ->
                MatchRest(rx, text,
                          Repeated(rx, i + 1, text, P, [neg |-> FALSE, set |-> {rx[i]}]))

\* the alternatives after the first, which ended as r
MatchOr(rx, text, P, r) ==
    IF r.next <= Len(rx) /\ rx[r.next] = "|"
    THEN [S |-> r.S \cup MatchAlternate(rx, r.next + 1, text, P).S,
          next |-> MatchAlternate(rx, r.next + 1, text, P).next]
    ELSE r

\* alternatives from position i up to ")" or the end
MatchAlternate(rx, i, text, P) == MatchOr(rx, text, P, MatchConcat(rx, i, text, P))

\* rx.MatchString(text): the expression matches somewhere in the text
MatchString(rx, text) == MatchAlternate(rx, 1, text, 0..Len(text)).S # {}

(* ---- glob.Normalize ---- *)
\* filepath.Clean for the paths of the alphabet, which has no dot: runs of
\* slashes become one slash, a slash at the end goes unless the path is the
\* root, and the empty path becomes "."
RECURSIVE Collapse(_)
Collapse(s) ==
    IF Len(s) < 2 THEN s
    ELSE IF s[1] = "/" /\ s[2] = "/" THEN Collapse(Tail(s))
    ELSE <<Head(s)>> \o Collapse(Tail(s))

DropSlash(s) == IF Len(s) > 1 /\ s[Len(s)] = "/" THEN SubSeq(s, 1, Len(s) - 1) ELSE s

Clean(s) == IF s = <<>> THEN <<".">> ELSE DropSlash(Collapse(s))

\* filepath.ToSlash changes nothing where the separator is the slash
Normalize(s) == NFD(Clean(s))

(* ---- the reference semantics of a glob pattern ---- *)
NonSeparator == [neg |-> TRUE, set |-> {"/"}]
AnyChar == [neg |-> TRUE, set |-> {}]

\* the members of the class from position i to the "]" no backslash escapes
RECURSIVE GlobClassMembers(_, _, _, _)
GlobClassMembers(pat, i, inEscape, acc) ==
    IF i > Len(pat) THEN [set |-> acc, next |-> i]
    ELSE IF inEscape THEN GlobClassMembers(pat, i + 1, FALSE, acc \cup {pat[i]})
    ELSE IF pat[i] = "\\" THEN GlobClassMembers(pat, i + 1, TRUE, acc)
    ELSE IF pat[i] = "]" THEN [set |-> acc, next |-> i + 1]
    ELSE GlobClassMembers(pat, i + 1, FALSE, acc \cup {pat[i]})

GlobClassAt(pat, i) ==
    IF i < Len(pat) /\ pat[i + 1] = "^"
    THEN [neg |-> TRUE] @@ GlobClassMembers(pat, i + 2, FALSE, {})
    ELSE [neg |-> FALSE] @@ GlobClassMembers(pat, i + 1, FALSE, {})

\* one non-separator character of the class
StepClass(text, P, cs) ==
    {p + 1 : p \in {q \in P : /\ q < Len(text) /\ text[q + 1] # "/"
                               /\ CharIn(cs, text[q + 1])}}

\* the position after the run of slashes that starts at i
RECURSIVE AfterSlashes(_, _)
AfterSlashes(pat, i) ==
    IF i <= Len(pat) /\ pat[i] = "/" THEN AfterSlashes(pat, i + 1) ELSE i

RECURSIVE GlobConcat(_, _, _, _, _)
RECURSIVE GlobAlternate(_, _, _, _, _)

GlobAfterGroup(pat, text, depth, r) == GlobConcat(pat, r.next + 1, text, r.S, depth)

\* the pattern from position i up to the end of the alternative (a "," or "}"
\* inside a brace group) or of the pattern
GlobConcat(pat, i, text, P, depth) ==
    IF i > Len(pat) \/ (depth > 0 /\ pat[i] \in {",", "}"}) THEN [S |-> P, next |-> i]
    ELSE CASE pat[i] = "?" ->
                GlobConcat(pat, i + 1, text, StepChar(text, P, NonSeparator), depth)
           [] pat[i] = "*" ->
                IF i < Len(pat) /\ pat[i + 1] = "*"
                THEN GlobConcat(pat, i + 2, text, StarChar(text, P, AnyChar), depth)
                ELSE GlobConcat(pat, i + 1, text, StarChar(text, P, NonSeparator), depth)
           [] pat[i] = "[" ->
                GlobConcat(pat, GlobClassAt(pat, i).next, text,
                           StepClass(text, P, GlobClassAt(pat, i)), depth)
           [] pat[i] = "{" ->
                GlobAfterGroup(pat, text, depth, GlobAlternate(pat, i + 1, text, P, depth + 1))
           [] pat[i] = "/" ->
                GlobConcat(pat, AfterSlashes(pat, i), text,
                           StepChar(text, P, [neg |-> FALSE, set |-> {"/"}]), depth)
           [] OTHER ->
                GlobConcat(pat, i + 1, text,
                           StepChar(text, P, [neg |-> FALSE, set |-> {pat[i]}]), depth)

GlobOr(pat, text, P, depth, r) ==
    IF r.next <= Len(pat) /\ pat[r.next] = ","
    THEN [S |-> r.S \cup GlobAlternate(pat, r.next + 1, text, P, depth).S,
          next |-> GlobAlternate(pat, r.next + 1, text, P, depth).next]
    ELSE r

\* the alternatives of a brace group from position i up to its "}"
GlobAlternate(pat, i, text, P, depth) ==
    GlobOr(pat, text, P, depth, GlobConcat(pat, i, text, P, depth))

\* the pattern matches the whole text
GlobMatch(pat, text) == Len(text) \in GlobConcat(pat, 1, text, {0}, 0).S

\* a glob pattern of the grammar: not a raw expression, UTF-8, no backslash
\* outside a class, every class with a member and an end, every brace group
\* closed
RECURSIVE WellFormed(_, _)
WellFormed(s, depth) ==
    IF s = <<>> THEN depth = 0
    ELSE CASE Head(s) = "[" ->
                /\ SkipOne(Tail(s), "^") # <<>>
                /\ Head(SkipOne(Tail(s), "^")) # "]"
                /\ ClassEnd(SkipOne(Tail(s), "^"), FALSE).ok
                /\ WellFormed(ClassEnd(SkipOne(Tail(s), "^"), FALSE).rest, depth)
           [] Head(s) = "{" -> WellFormed(Tail(s), depth + 1)
           [] Head(s) = "}" /\ depth > 0 -> WellFormed(Tail(s), depth - 1)
           [] Head(s) \in {"\\", "xFF"} -> FALSE
           [] OTHER -> WellFormed(Tail(s), depth)

ValidGlob(s) == ~HasPrefix(s, "^") /\ WellFormed(s, 0)

(* ---- Compile and MatchString on a pattern and a path (SpecMatch) ---- *)
MaxPathLen == 2

MatchRunes == {"a", "/", "*", "?", "[", "]", "^", "{", ",", "}"}
PathRunes == {"a", "/", ","}

InitMatch ==
    /\ pin \in {[pattern |-> s, path |-> t] :
                   s \in Strings(MatchRunes, MaxLen), t \in Strings(PathRunes, MaxPathLen)}
    /\ pout = NotApplied
    /\ gc = ZeroCompiler
    /\ IdlePrograms

\* the compiled pattern applied to the normalized path, as Rule.Check does
Matched(compiled, path) ==
    [done |-> TRUE, panic |-> compiled.panic, err |-> compiled.err, rx |-> compiled.rx,
     path |-> path,
     matched |-> IF compiled.panic \/ compiled.err # "" THEN FALSE
                 ELSE MatchString(compiled.rx, path)]

ApplyMatch ==
    /\ UNCHANGED <<notPure, pin, gc>>
    /\ ~pout.done
    /\ pout' = Matched(Compile(pin.pattern), Normalize(pin.path))

SpecMatch == InitMatch /\ [][ApplyMatch]_vars

\* C19: for every valid glob pattern, the expression Compile produces matches
\* a normalized path if and only if the reference semantics match the whole
\* path: "?" one non-separator character, "*" zero or more of them, "**" any
\* characters, a class one non-separator character of the class, "{a,b}"
\* either alternative, a run of slashes one separator, any other character
\* itself.
C19_MatchesAsGlob ==
    (pout.done /\ ValidGlob(pin.pattern)) =>
        /\ ~pout.panic /\ pout.err = ""
        /\ pout.matched <=> GlobMatch(NFD(pin.pattern), pout.path)

(* ---- C20: the brace depth ---- *)
RECURSIVE Count(_, _)
Count(s, ch) ==
    IF s = <<>> THEN 0 ELSE (IF Head(s) = ch THEN 1 ELSE 0) + Count(Tail(s), ch)

\* what a step of the compiler appended to the output
Appended == SubSeq(gc'.output, Len(gc.output) + 1, Len(gc'.output))

\* the rune onReady is about to look at is ch
Looking(ch) ==
    InState("stateReady") /\ peekRune(gc).hasChar /\ peekRune(gc).char = ch

\* ch is handed to the handler of the given state, with nothing written
Special(state) ==
    gc'.state = state /\ gc'.output = gc.output /\ gc'.depth = gc.depth

\* the quoted text is written as a literal
Literal(quoted) ==
    gc'.state = "stateReady" /\ gc'.output = gc.output \o quoted /\ gc'.depth = gc.depth

\* one step of the compiler treats ",", "}" and "{" by the depth
BraceStep ==
    /\ Looking(",") => IF gc.depth > 0 THEN Special("stateComma") ELSE Literal(<<",">>)
    /\ Looking("}") =>
           IF gc.depth > 0 THEN Special("stateCloseBrace") ELSE Literal(<<"\\", "}">>)
    /\ InState("stateComma") => Appended = <<"|">> /\ gc'.depth = gc.depth
    /\ InState("stateCloseBrace") => Appended = <<")">> /\ gc'.depth = gc.depth - 1
    /\ InState("stateOpenBrace") => Appended = <<"(", "?", ":">> /\ gc'.depth = gc.depth + 1
    /\ (gc.output # <<>> /\ \E i \in 1..Len(Appended) : Appended[i] \in {"|", ")"}) =>
           gc.depth > 0 /\ gc.state \in {"stateComma", "stateCloseBrace"}

\* the compiler read the whole pattern and wrote the expression
Compiled == pout.done /\ gc.err = "io.EOF"

\* C20: "," and "}" become the alternation separator and the group close only
\* while the brace depth is above zero and are literal characters at depth
\* zero; "{" adds one to the depth and a special "}" takes one away; the depth
\* is never below zero, and on every successful compilation the output has as
\* many group openings as group closings.  (The alphabet has no parenthesis,
\* so every "(" and ")" of the output opens or closes a group.)
C20_BraceDepth ==
    /\ [](gc.depth >= 0)
    /\ [](Compiled => Count(gc.output, "(") = Count(gc.output, ")"))
    /\ [][BraceStep]_vars

\* a compiled pattern with a group, a separator in it and a literal comma
C20_Witness ==
    /\ Compiled /\ ReturnedRegexp
    /\ Count(gc.output, "(") = 1 /\ Count(gc.output, "|") = 1
    /\ Count(pin, ",") = 2

(* ---- C30: the other characters ---- *)
\* in stateReady, ch is none of the characters with a handler of their own
OtherRune(ch, depth) ==
    /\ ch \notin {"/", "?", "*", "[", "{"}
    /\ ~(ch \in {",", "}"} /\ depth > 0)

\* onReady is about to look at such a rune
LookingAtOther ==
    /\ InState("stateReady") /\ peekRune(gc).hasChar
    /\ OtherRune(peekRune(gc).char, gc.depth)

\* the rune was consumed, written as an escaped literal, and the compiler
\* goes on in stateReady
TakenAsLiteral ==
    /\ Literal(QuoteMeta(peekRune(gc).char))
    /\ gc'.input = peekRune(gc).input /\ ~gc'.hasChar
    /\ gc'.err = "" /\ ~gc'.panic

\* C30 (as stated): in stateReady every code point other than "/", "?", "*",
\* "[", "{" (and other than "," and "}" while a brace group is open) is
\* consumed and appended to the output as an escaped literal, the state stays
\* stateReady and the compilation does not fail.
C30_OtherIsLiteral ==
    [][LookingAtOther => TakenAsLiteral]_vars

\* C30 (amended): the same for every code point other than the backslash;
\* a backslash in stateReady ends the compilation with the error
\* "unexpected character '\'" and nothing is written.
C30_OtherButBackslashIsLiteral ==
    [][/\ (LookingAtOther /\ ~Looking("\\")) => TakenAsLiteral
       /\ Looking("\\") =>
             /\ gc'.err = "unexpected character '\\'"
             /\ gc'.state = "stateDone" /\ gc'.output = gc.output]_vars

\* a compiled pattern in which "]" was written as an escaped literal and a
\* rune outside the basic plane as itself
C30_Witness ==
    /\ Compiled /\ ReturnedRegexp
    /\ Count(pin, "[") = 0 /\ Count(pin, "]") = 1 /\ Count(pin, "U1D11E") = 1
    /\ Count(gc.output, "\\") = 1 /\ Count(gc.output, "U1D11E") = 1

(* ---- C31: Run terminates ---- *)
\* the code points the compiler has not consumed yet
Remaining(g) == Len(g.input) + (IF g.hasChar THEN 1 ELSE 0)

\* the step is one call of gc.step() in the loop of Run
RunStep == ~pout.done /\ gc.state # "stateDone" /\ gc' # gc

\* step returned false (the handler called fail), or it consumed a code
\* point, or it peeked one in stateReady and left it to the handler of the
\* state it moved to
Progress ==
    \/ gc'.state = "stateDone" /\ gc'.err # ""
    \/ Remaining(gc') < Remaining(gc)
    \/ /\ gc.state = "stateReady" /\ gc'.state \notin {"stateReady", "stateDone"}
       /\ gc'.hasChar /\ Remaining(gc') = Remaining(gc)

\* Run has returned
RunEnded == gc # ZeroCompiler /\ gc.state = "stateDone"

\* C31: for every input Run terminates: every step that returns true
\* consumes a code point or moves from stateReady to a state whose handler
\* consumes the peeked one; Run ends in stateDone with err set, io.EOF after
\* "$" was appended to an output that starts with "^"; nothing panics on the
\* way, and Compiler.Compile is never called with err unset.
C31_RunTerminates ==
    /\ [][RunStep => Progress]_vars
    /\ [](~gc.panic /\ (pout.done => ~pout.panic))
    /\ [](RunEnded =>
            /\ gc.err # ""
            /\ gc.err = "io.EOF" =>
                  Head(gc.output) = "^" /\ gc.output[Len(gc.output)] = "$")
    /\ [](gc # ZeroCompiler => (pout.done => RunEnded))

(* ======================================================================= *)
(* find-duplicate-files/rule.go: Rules.Exclude on its own (SpecExclude)     *)
(* ======================================================================= *)
\* the values of the exclude attribute: empty, 1, y, yes, t, true, and then
\* Y, YES, True, TRUE, 0, n, no, false, "1" with a newline, "11", " y"
ExcludeValues ==
    {<<>>, <<49>>, <<121>>, <<121, 101, 115>>, <<116>>, <<116, 114, 117, 101>>,
     <<89>>, <<89, 69, 83>>, <<84, 114, 117, 101>>, <<84, 82, 85, 69>>,
     <<48>>, <<110>>, <<110, 111>>, <<102, 97, 108, 115, 101>>,
     <<49, 10>>, <<49, 49>>, <<32, 121>>}

\* rule lists over the path of the item and another path
ExcludeRuleSets ==
    {<<>>,
     <<[Pattern |-> {CachePath}, Exclude |-> TRUE]>>,
     <<[Pattern |-> {CachePath}, Exclude |-> FALSE]>>,
     <<[Pattern |-> {CachePath + 1}, Exclude |-> TRUE],
       [Pattern |-> {CachePath}, Exclude |-> TRUE],
       [Pattern |-> {CachePath}, Exclude |-> FALSE]>>}

InitExclude ==
    /\ pin \in {[ns |-> n, at |-> a, value |-> v, fault |-> f, rules |-> r] :
                   n \in NSSet, a \in NSSet, v \in ExcludeValues \cup {NoAttr},
                   f \in {"none", "fget", "nosup"},
                   r \in ExcludeRuleSets}
    /\ pout = NotApplied
    /\ gc = ZeroCompiler
    /\ IdlePrograms

\* flagRules.Exclude(it) with flagNS = pin.ns on a file whose attribute
\* <pin.at>exclude has the value pin.value; pin.fault is "fget" when the read
\* of <pin.ns>exclude fails, "nosup" when the file system has no attributes
ApplyExclude ==
    /\ UNCHANGED <<notPure, pin, gc>>
    /\ ~pout.done
    /\ \E r \in {Exclude(NewWorld([EmptyAttrs EXCEPT ![ExcludeName(pin.at)] = pin.value]),
                         [op |-> pin.fault, name |-> ExcludeName(pin.ns)],
                         pin.ns, CachePath, pin.rules)} :
          pout' = [done |-> TRUE, excluded |-> r.excluded, reads |-> r.w.reads,
                   writes |-> r.w.writes]

SpecExclude == InitExclude /\ [][ApplyExclude]_vars

\* the attribute <ns>exclude is there and can be read
Present == pin.at = pin.ns /\ pin.value # NoAttr /\ pin.fault = "none"

\* empty, 1, y, yes, t, true
Truthy ==
    {<<>>, <<49>>, <<121>>, <<121, 101, 115>>, <<116>>, <<116, 114, 117, 101>>}

\* the Exclude disposition of the first rule that matches the path, FALSE
\* when none does
FirstRuleExcludes(list, path) ==
    \E i \in 1..Len(list) :
        /\ path \in list[i].Pattern /\ list[i].Exclude
        /\ \A j \in 1..(i - 1) : path \notin list[j].Pattern

\* C21: Rules.Exclude reads the attribute <ns>exclude first: present with a
\* value that is empty or exactly 1, y, yes, t or true, the item is excluded
\* whatever the rules say; present with any other value, it is not excluded
\* whatever the rules say; the rules decide only when the attribute is absent
\* or cannot be read.
C21_ExcludeAttributeFirst ==
    pout.done =>
        /\ pout.reads = {ExcludeName(pin.ns)}
        /\ (Present /\ pin.value \in Truthy) => pout.excluded
        /\ (Present /\ pin.value \notin Truthy) => ~pout.excluded
        /\ ~Present => (pout.excluded <=> FirstRuleExcludes(pin.rules, CachePath))

\* the attribute says yes where the first matching rule says no
C21_Witness ==
    /\ pout.done /\ Present /\ pin.value = <<121, 101, 115>>
    /\ pin.rules # <<>> /\ ~FirstRuleExcludes(pin.rules, CachePath)
    /\ pout.excluded

(* ======================================================================= *)
(* Rules.Priority and the rule loop of Rules.Exclude (SpecRules)           *)
(* ======================================================================= *)
MaxRules == 2

\* the patterns given with -include and -exclude: a, *, ** and a/*
RuleGlobs == {<<"a">>, <<"*">>, <<"*", "*">>, <<"a", "/", "*">>}

RECURSIVE RuleLists(_)
RuleLists(n) ==
    IF n = 0 THEN {<<>>}
    ELSE RuleLists(n - 1)
             \cup {<<[glob |-> g, Exclude |-> x]>> \o l :
                      g \in RuleGlobs, x \in BOOLEAN, l \in RuleLists(n - 1)}

\* what Normalize gives for the paths of the alphabet
NormalPaths == {Normalize(t) : t \in Strings(PathRunes, MaxPathLen)}

\* rule.Pattern, compiled from the glob, as the set of the normalized paths
\* that Pattern.MatchString accepts
PatternOf(glob) == {t \in NormalPaths : MatchString(Compile(glob).rx, t)}

InitRules ==
    /\ pin \in {[prog |-> p, list |-> l, path |-> t] :
                   p \in {"clean-duplicate-files", "find-duplicate-files"},
                   l \in RuleLists(MaxRules), t \in Strings(PathRunes, MaxPathLen)}
    /\ pout = NotApplied
    /\ gc = ZeroCompiler
    /\ IdlePrograms

\* clean-duplicate-files: flagRules.Priority(path)
ApplyPriority ==
    /\ UNCHANGED <<notPure, pin, gc>>
    /\ ~pout.done /\ pin.prog = "clean-duplicate-files"
    /\ pout' = [done |-> TRUE,
                val |-> Priority([i \in 1..Len(pin.list) |-> PatternOf(pin.list[i].glob)],
                                 Normalize(pin.path))]

\* find-duplicate-files: the loop of flagRules.Exclude(it) over the rules
ApplyRuleLoop ==
    /\ UNCHANGED <<notPure, pin, gc>>
    /\ ~pout.done /\ pin.prog = "find-duplicate-files"
    /\ pout' = [done |-> TRUE,
                val |-> RulesExcludeFrom(
                            [i \in 1..Len(pin.list) |->
                                [Pattern |-> PatternOf(pin.list[i].glob),
                                 Exclude |-> pin.list[i].Exclude]],
                            Normalize(pin.path), 1)]

NextRules == ApplyPriority \/ ApplyRuleLoop

SpecRules == InitRules /\ [][NextRules]_vars

\* rule i of the list matches the normalized path
RuleMatches(i) == GlobMatch(pin.list[i].glob, Normalize(pin.path))

\* the first rule that matches is rule i
FirstMatch(i) == RuleMatches(i) /\ \A j \in 1..(i - 1) : ~RuleMatches(j)

NoMatch == \A i \in 1..Len(pin.list) : ~RuleMatches(i)

\* C22: the rules are evaluated in list order and the first match wins:
\* Priority returns the index (from 0) of the first rule whose pattern
\* matches the normalized path, or the list length when none matches; the rule
\* loop of Exclude returns the Exclude disposition of the first matching
\* rule, or false when none matches.
C22_FirstMatchWins ==
    pout.done =>
        IF pin.prog = "clean-duplicate-files"
        THEN /\ NoMatch => pout.val = Len(pin.list)
             /\ \A i \in 1..Len(pin.list) : FirstMatch(i) => pout.val = i - 1
        ELSE /\ NoMatch => pout.val = FALSE
             /\ \A i \in 1..Len(pin.list) : FirstMatch(i) => pout.val = pin.list[i].Exclude

\* the second rule matches and says exclude, the first matches and says keep
C22_Witness ==
    /\ pout.done /\ pin.prog = "find-duplicate-files" /\ Len(pin.list) >= 2
    /\ FirstMatch(1) /\ RuleMatches(2)
    /\ ~pin.list[1].Exclude /\ pin.list[2].Exclude /\ pout.val = FALSE

====
